---- MODULE Spec2Model ----
(***************************************************************************)
(* The conversational-flow engine of ConversationalBot                     *)
(* (src/src/examples/week3_conversational/mod.ts).                         *)
(*                                                                         *)
(* Strings are sequences of one-character strings, so that lower-casing,   *)
(* trimming, substring search and placeholder replacement are computed.    *)
(* A message handler runs without interruption up to its                   *)
(* `await sendMessage(...)`: that is where the event loop may dispatch     *)
(* another message event, the cleanup timer, or let time pass.  The other  *)
(* awaits of the handler resume from the microtask queue before any new    *)
(* event is dispatched.  The send of a handler either resolves or rejects. *)
(***************************************************************************)
EXTENDS Integers, Sequences, FiniteSets, Bags, TLC

VARIABLES
    conversations,    \* this.conversations: userId -> ConversationState
    flows,            \* this.flows, in insertion order
    cleanupInterval,  \* "running" while the setInterval timer is armed
    now,              \* Date.now(), in milliseconds
    inflight,         \* the bag of handlers suspended in `await sendMessage`
    lastStep,         \* what the last event did and passed to sendMessage
    call,             \* the last direct call of one of the bots' pure methods
    contexts,         \* MCPBot's this.contexts: userId -> AIContext
    tools             \* MCPBot's this.tools: the registered tool names, in insertion order

vars == <<conversations, flows, cleanupInterval, now, inflight, lastStep, call,
          contexts, tools>>

----------------------------------------------------------------------------
(* Bounds *)

MaxInflight == 2
MaxTicks == 2
MaxVisited == 4

Users == {"u1", "u2"}
Refs == 1..(Cardinality(Users) + MaxInflight + 1)
TickStep == 3 * 60 * 1000
MaxNow == MaxTicks * TickStep

\* message texts the users type
Texts ==
    { <<"H", "e", "l", "l", "o">>,
      <<" ", "3", "$", "&", " ">> }

----------------------------------------------------------------------------
(* Strings *)

Last(s) == s[Len(s)]

UpperChars == <<"A", "B", "C", "D", "E", "F", "G", "H", "I", "J", "K", "L", "M",
                "N", "O", "P", "Q", "R", "S", "T", "U", "V", "W", "X", "Y", "Z">>
LowerChars == <<"a", "b", "c", "d", "e", "f", "g", "h", "i", "j", "k", "l", "m",
                "n", "o", "p", "q", "r", "s", "t", "u", "v", "w", "x", "y", "z">>

lowerOf == [c \in {UpperChars[k] : k \in 1..26} |->
               LowerChars[CHOOSE k \in 1..26 : UpperChars[k] = c]]

\* String.prototype.toLowerCase
toLowerCase(s) ==
    [i \in 1..Len(s) |-> IF s[i] \in DOMAIN lowerOf THEN lowerOf[s[i]] ELSE s[i]]

\* the white space that is typed: blank, tab and line feed
WhiteSpace == {" ", "\t", "\n"}

\* String.prototype.trim
trim(s) ==
    LET keep == {i \in 1..Len(s) : s[i] \notin WhiteSpace}
    IN IF keep = {} THEN <<>>
       ELSE LET lo == CHOOSE i \in keep : \A j \in keep : i <= j
                hi == CHOOSE i \in keep : \A j \in keep : j <= i
            IN SubSeq(s, lo, hi)

\* String.prototype.indexOf, 1-based; 0 when `a` does not occur in `s`
indexOf(s, a) ==
    LET at == {i \in 1..(Len(s) - Len(a) + 1) : SubSeq(s, i, i + Len(a) - 1) = a}
    IN IF at = {} THEN 0 ELSE CHOOSE i \in at : \A j \in at : i <= j

\* mutant: every text is taken to contain every keyword
includesAnything(s, a) == TRUE

\* String.prototype.includes
includes(s, a) == indexOf(s, a) # 0

\* GetSubstitution: the text a replacement string stands for.  A dollar sign
\* followed by a dollar sign is one dollar sign, followed by an ampersand the
\* matched text, followed by an apostrophe the text after the match; a string
\* pattern captures nothing, so any other dollar sign is kept as it is (the
\* grave accent, which gives the text before the match, is not typed here).
RECURSIVE GetSubstitution(_, _, _, _)
GetSubstitution(matched, after, v, i) ==
    IF i > Len(v) THEN <<>>
    ELSE IF v[i] = "$" /\ i < Len(v) /\ v[i + 1] \in {"$", "&", "'"}
    THEN (CASE v[i + 1] = "$" -> <<"$">>
            [] v[i + 1] = "&" -> matched
            [] OTHER -> after)
         \o GetSubstitution(matched, after, v, i + 2)
    ELSE <<v[i]>> \o GetSubstitution(matched, after, v, i + 1)

\* String.prototype.replace with a string pattern and a string replacement:
\* the first occurrence only
replace(s, a, v) ==
    LET i == indexOf(s, a)
    IN IF i = 0 THEN s
       ELSE LET before == SubSeq(s, 1, i - 1)
                after == SubSeq(s, i + Len(a), Len(s))
            IN before \o GetSubstitution(a, after, v, 1) \o after

\* new RegExp(pattern, 'i').test(input), for the two pattern shapes the flows
\* use: `.*` and an unanchored alternation of literals `(a|b|c)`
RegExpTest(pattern, input) ==
    \/ pattern.any
    \/ \E k \in 1..Len(pattern.alts) :
          includes(toLowerCase(input), toLowerCase(pattern.alts[k]))

----------------------------------------------------------------------------
(* Maps *)

MapSet(m, k, v) == [x \in DOMAIN m \cup {k} |-> IF x = k THEN v ELSE m[x]]
MapDelete(m, k) == [x \in DOMAIN m \ {k} |-> m[x]]
EmptyMap == [x \in {} |-> 0]

----------------------------------------------------------------------------
(* Flow definitions *)

(* The onboarding flow.  A transition table is the sequence of its entries in
   the order of declaration.  Prompts are cut to their opening words; placeholders are kept.
   An action is named: "setName" is `state.userData = { name: input.trim() }`. *)
createOnboardingFlow ==
    LET learn ==
            [src |-> "(1|learn|discord|bot)", any |-> FALSE,
             alts |-> <<<<"1">>,
                       <<"l", "e", "a", "r", "n">>,
                       <<"d", "i", "s", "c", "o", "r", "d">>,
                       <<"b", "o", "t">>>>]
        coding ==
            [src |-> "(2|help|coding|code)", any |-> FALSE,
             alts |-> <<<<"2">>,
                       <<"h", "e", "l", "p">>,
                       <<"c", "o", "d", "i", "n", "g">>,
                       <<"c", "o", "d", "e">>>>]
        chat ==
            [src |-> "(3|chat|talk)", any |-> FALSE,
             alts |-> <<<<"3">>,
                       <<"c", "h", "a", "t">>,
                       <<"t", "a", "l", "k">>>>]
        command ==
            [src |-> "(command|interaction)", any |-> FALSE,
             alts |-> <<<<"c", "o", "m", "m", "a", "n", "d">>,
                       <<"i", "n", "t", "e", "r", "a", "c", "t", "i", "o", "n">>>>]
        event ==
            [src |-> "(event|handling)", any |-> FALSE,
             alts |-> <<<<"e", "v", "e", "n", "t">>,
                       <<"h", "a", "n", "d", "l", "i", "n", "g">>>>]
        api ==
            [src |-> "(api|integration)", any |-> FALSE,
             alts |-> <<<<"a", "p", "i">>,
                       <<"i", "n", "t", "e", "g", "r", "a", "t", "i", "o", "n">>>>]
        js ==
            [src |-> "(javascript|js|typescript|ts)", any |-> FALSE,
             alts |-> <<<<"j", "a", "v", "a", "s", "c", "r", "i", "p", "t">>,
                       <<"j", "s">>,
                       <<"t", "y", "p", "e", "s", "c", "r", "i", "p", "t">>,
                       <<"t", "s">>>>]
        python ==
            [src |-> "(python|py)", any |-> FALSE,
             alts |-> <<<<"p", "y", "t", "h", "o", "n">>,
                       <<"p", "y">>>>]
        deno ==
            [src |-> "(deno|rust)", any |-> FALSE,
             alts |-> <<<<"d", "e", "n", "o">>,
                       <<"r", "u", "s", "t">>>>]
        yes ==
            [src |-> "(yes|sure|ok|yeah)", any |-> FALSE,
             alts |-> <<<<"y", "e", "s">>,
                       <<"s", "u", "r", "e">>,
                       <<"o", "k">>,
                       <<"y", "e", "a", "h">>>>]
        no ==
            [src |-> "(no|nope)", any |-> FALSE,
             alts |-> <<<<"n", "o">>,
                       <<"n", "o", "p", "e">>>>]
        any ==
            [src |-> ".*", any |-> TRUE, alts |-> <<>>]
    IN [name |-> "onboarding",
        triggers |-> <<<<"h", "e", "l", "l", "o">>,
                       <<"h", "i">>,
                       <<"s", "t", "a", "r", "t">>,
                       <<"h", "e", "l", "p">>>>,
        states |->
               "greeting" :>
                 [prompt |-> <<"H", "e", "l", "l", "o", "!", " ", "W", "h", "a", "t", "'", "s", " ", "y", "o", "u", "r", " ", "n", "a", "m", "e", "?">>,
                  transitions |-> <<<<any, "askPurpose">>>>,
                  action |-> "setName"]
            @@ "askPurpose" :>
                 [prompt |-> <<"N", "i", "c", "e", " ", "t", "o", " ", "m", "e", "e", "t", " ", "y", "o", "u", ",", " ", "{", "n", "a", "m", "e", "}", "!">>,
                  transitions |-> <<<<learn, "botLearning">>, <<coding, "codingHelp">>, <<chat, "casualChat">>, <<any, "clarifyPurpose">>>>,
                  action |-> "none"]
            @@ "clarifyPurpose" :>
                 [prompt |-> <<"I", " ", "d", "i", "d", "n", "'", "t", " ", "q", "u", "i", "t", "e", " ", "u", "n", "d", "e", "r", "s", "t", "a", "n", "d", ".">>,
                  transitions |-> <<<<learn, "botLearning">>, <<coding, "codingHelp">>, <<chat, "casualChat">>, <<any, "askPurpose">>>>,
                  action |-> "none"]
            @@ "botLearning" :>
                 [prompt |-> <<"G", "r", "e", "a", "t", "!">>,
                  transitions |-> <<<<command, "commandsInfo">>, <<event, "eventsInfo">>, <<api, "apiInfo">>, <<any, "complete">>>>,
                  action |-> "none"]
            @@ "codingHelp" :>
                 [prompt |-> <<"W", "h", "a", "t", " ", "l", "a", "n", "g", "u", "a", "g", "e", "?">>,
                  transitions |-> <<<<js, "jsHelp">>, <<python, "pythonHelp">>, <<deno, "denoRustHelp">>, <<any, "generalHelp">>>>,
                  action |-> "none"]
            @@ "casualChat" :>
                 [prompt |-> <<"T", "h", "a", "t", "'", "s", " ", "n", "i", "c", "e", "!">>,
                  transitions |-> <<<<any, "complete">>>>,
                  action |-> "none"]
            @@ "commandsInfo" :>
                 [prompt |-> <<"C", "o", "m", "m", "a", "n", "d", "s", ".">>,
                  transitions |-> <<<<yes, "showExample">>, <<no, "complete">>, <<any, "complete">>>>,
                  action |-> "none"]
            @@ "eventsInfo" :>
                 [prompt |-> <<"E", "v", "e", "n", "t", " ", "h", "a", "n", "d", "l", "i", "n", "g", ".">>,
                  transitions |-> <<<<yes, "showExample">>, <<no, "complete">>, <<any, "complete">>>>,
                  action |-> "none"]
            @@ "apiInfo" :>
                 [prompt |-> <<"T", "h", "e", " ", "D", "i", "s", "c", "o", "r", "d", " ", "A", "P", "I", ".">>,
                  transitions |-> <<<<yes, "provideLinks">>, <<no, "complete">>, <<any, "complete">>>>,
                  action |-> "none"]
            @@ "showExample" :>
                 [prompt |-> <<"H", "e", "r", "e", "'", "s", " ", "a", " ", "s", "i", "m", "p", "l", "e", " ", "D", "e", "n", "o", " ", "e", "x", "a", "m", "p", "l", "e", ".">>,
                  transitions |-> <<<<any, "complete">>>>,
                  action |-> "none"]
            @@ "provideLinks" :>
                 [prompt |-> <<"C", "h", "e", "c", "k", " ", "o", "u", "t", " ", "t", "h", "e", "s", "e", " ", "r", "e", "s", "o", "u", "r", "c", "e", "s", ".">>,
                  transitions |-> <<<<any, "complete">>>>,
                  action |-> "none"]
            @@ "jsHelp" :>
                 [prompt |-> <<"J", "a", "v", "a", "S", "c", "r", "i", "p", "t", "!">>,
                  transitions |-> <<<<any, "complete">>>>,
                  action |-> "none"]
            @@ "pythonHelp" :>
                 [prompt |-> <<"P", "y", "t", "h", "o", "n", "!">>,
                  transitions |-> <<<<any, "complete">>>>,
                  action |-> "none"]
            @@ "denoRustHelp" :>
                 [prompt |-> <<"E", "x", "c", "e", "l", "l", "e", "n", "t", " ", "c", "h", "o", "i", "c", "e", "!">>,
                  transitions |-> <<<<any, "complete">>>>,
                  action |-> "none"]
            @@ "generalHelp" :>
                 [prompt |-> <<"W", "h", "a", "t", " ", "c", "h", "a", "l", "l", "e", "n", "g", "e", "?">>,
                  transitions |-> <<<<any, "complete">>>>,
                  action |-> "none"]
            @@ "complete" :>
                 [prompt |-> <<"T", "h", "a", "n", "k", " ", "y", "o", "u", " ", "f", "o", "r", " ", "t", "h", "e", " ", "c", "o", "n", "v", "e", "r", "s", "a", "t", "i", "o", "n", "!">>,
                  transitions |-> <<>>,
                  action |-> "none"],
        initialState |-> "greeting"]

\* The onboarding flow with the state 'casualChat' removed from its states map:
\* a flow graph in which a transition target does not resolve
corruptedOnboardingFlow ==
    [createOnboardingFlow EXCEPT
        !.states = [s \in DOMAIN createOnboardingFlow.states \ {"casualChat"} |->
                        createOnboardingFlow.states[s]]]

\* A second flow, registered next to the onboarding flow when detectFlow is
\* called directly: another name and other trigger keywords
helpdeskFlow ==
    [createOnboardingFlow EXCEPT
        !.name = "helpdesk",
        !.triggers = <<<<"b", "o", "t">>, <<"h", "e", "l", "p">>>>]

\* mutant: the registered onboarding flow lacks one of its transition targets
FlowOfDangling(id) ==
    CASE id = "helpdesk" -> helpdeskFlow
      [] OTHER -> corruptedOnboardingFlow

\* The flow objects, by the identity under which the variable `flows` holds them
FlowOf(id) ==
    CASE id = "onboarding" -> createOnboardingFlow
      [] id = "helpdesk" -> helpdeskFlow
      [] OTHER -> corruptedOnboardingFlow

\* registerConversationFlows: this.flows after the constructor
registerConversationFlows == <<"onboarding">>

\* this.flows.get(name) as a sequence of 0 or 1 flows
flowsGet(fl, name) ==
    LET hits == SelectSeq(fl, LAMBDA id : FlowOf(id).name = name)
    IN IF hits = <<>> THEN <<>> ELSE <<FlowOf(Head(hits))>>

----------------------------------------------------------------------------
(* The engine's pure parts *)

sessionTimeout == 5 * 60 * 1000

\* mutant: a session idle for exactly the timeout is expired
isSessionExpiredInclusive(state, t) == t - state.lastInteraction >= sessionTimeout

\* isSessionExpired(state) at time t
isSessionExpired(state, t) == t - state.lastInteraction > sessionTimeout

\* mutant: the flow registered last among those with a matching trigger wins
detectFlowLastMatch(fl, content) ==
    LET normalizedContent == trim(toLowerCase(content))
        hits == SelectSeq(fl, LAMBDA id :
                    \E k \in 1..Len(FlowOf(id).triggers) :
                        includes(normalizedContent, FlowOf(id).triggers[k]))
    IN IF hits = <<>> THEN <<>> ELSE <<FlowOf(hits[Len(hits)])>>

\* detectFlow(content): the sequence of 0 or 1 flows it returns
detectFlow(fl, content) ==
    LET normalizedContent == trim(toLowerCase(content))
        hits == SelectSeq(fl, LAMBDA id :
                    \E k \in 1..Len(FlowOf(id).triggers) :
                        includes(normalizedContent, FlowOf(id).triggers[k]))
    IN IF hits = <<>> THEN <<>> ELSE <<FlowOf(Head(hits))>>

\* mutant: the new session is filed under a topic no flow is registered for
createConversationStateUntitled(userId, topic, t, ref) ==
    [userId |-> userId,
     context |-> <<>>,
     currentTopic |-> "general",
     lastInteraction |-> t,
     userData |-> <<>>,
     ref |-> ref]

\* createConversationState(userId, topic); `ref` is the identity of the new object
createConversationState(userId, topic, t, ref) ==
    [userId |-> userId,
     context |-> <<>>,
     currentTopic |-> topic,
     lastInteraction |-> t,
     userData |-> <<>>,
     ref |-> ref]

\* interpolatePrompt(prompt, state): userData is the sequence of the entries of
\* the object, in the order Object.entries yields them
RECURSIVE interpolateFrom(_, _, _)
interpolateFrom(result, userData, i) ==
    IF i > Len(userData) THEN result
    ELSE LET placeholder == <<"{">> \o userData[i].key \o <<"}">>
         IN interpolateFrom(replace(result, placeholder, userData[i].value), userData, i + 1)

\* mutant: the placeholder of the key `c`, which no data bag has, is filled in
interpolatePromptFillsMissing(prompt, state) ==
    interpolateFrom(prompt,
                    state.userData \o <<[key |-> <<"c">>, value |-> <<"?">>]>>, 1)

interpolatePrompt(prompt, state) == interpolateFrom(prompt, state.userData, 1)

\* the keys that are canonical array indices, with their values (of the keys
\* used here, the one-digit ones)
ArrayIndex ==
    [k \in {"0", "1", "2", "3", "4", "5", "6", "7", "8", "9"} |->
        CHOOSE n \in 0..9 : ToString(n) = k]

\* Object.entries(transitions): the keys that are array indices first, in
\* ascending numeric order, then the other keys in the order of declaration
ObjectEntries(transitions) ==
    SortSeq(SelectSeq(transitions, LAMBDA e : e[1].src \in DOMAIN ArrayIndex),
            LAMBDA d, e : ArrayIndex[d[1].src] < ArrayIndex[e[1].src])
    \o SelectSeq(transitions, LAMBDA e : e[1].src \notin DOMAIN ArrayIndex)

\* findNextState(userInput, transitions): the sequence of 0 or 1 target states
findNextState(userInput, transitions) ==
    LET entries == ObjectEntries(transitions)
        hit == {i \in 1..Len(entries) : RegExpTest(entries[i][1], userInput)}
        dflt == {i \in 1..Len(transitions) : transitions[i][1].src = ".*"}
    IN IF hit # {}
       THEN <<entries[CHOOSE i \in hit : \A j \in hit : i <= j][2]>>
       ELSE IF dflt # {}
       THEN <<transitions[CHOOSE i \in dflt : TRUE][2]>>
       ELSE <<>>

\* currentState.action(state, input), by the name of the action
runAction(action, state, input) ==
    IF action = "setName"
    THEN [state EXCEPT !.userData = <<[key |-> <<"n", "a", "m", "e">>, value |-> trim(input)]>>]
    ELSE state

----------------------------------------------------------------------------
(* The synchronous part of a message handler.  Each operator returns the
   record [conversations, send, cont, branch]: the store it leaves, the
   sequence of 0 or 1 texts passed to sendMessage, what follows the awaited
   send ("deleteConfused" and "deleteComplete" are the two places that run
   this.conversations.delete(state.userId)), and the path taken. *)

Outcome(convs, send, cont, branch) ==
    [conversations |-> convs, send |-> send, cont |-> cont, branch |-> branch]

confusedNotice ==
    <<"I", "'", "m", " ", "a", " ", "b", "i", "t", " ", "c", "o", "n", "f", "u", "s", "e", "d", ".">>

unknownNotice ==
    <<"I", " ", "d", "i", "d", "n", "'", "t", " ", "u", "n", "d", "e", "r", "s", "t", "a", "n", "d", " ", "t", "h", "a", "t", ".">>

handleConfusedState(convs, userId) ==
    Outcome(convs, <<confusedNotice>>, "deleteConfused", "confused")

\* mutant: the initial state's action is run on the message that starts the flow
handleInitialStateRunsAction(convs, userId, flow, currentState) ==
    LET pushed == [runAction(currentState.action, convs[userId], <<"x">>)
                       EXCEPT !.context = Append(@, flow.initialState)]
    IN Outcome(MapSet(convs, userId, pushed),
               <<interpolatePrompt(currentState.prompt, pushed)>>, "none", "initial")

handleInitialState(convs, userId, flow, currentState) ==
    LET pushed == [convs[userId] EXCEPT !.context = Append(@, flow.initialState)]
    IN Outcome(MapSet(convs, userId, pushed),
               <<interpolatePrompt(currentState.prompt, pushed)>>, "none", "initial")

\* mutant: the history is reset to the new state instead of extended
transitionToNextStateResets(convs, userId, flow, nextStateName) ==
    LET pushed == [convs[userId] EXCEPT !.context = <<nextStateName>>]
        stored == MapSet(convs, userId, pushed)
    IN IF nextStateName \in DOMAIN flow.states
       THEN Outcome(stored,
                    <<interpolatePrompt(flow.states[nextStateName].prompt, pushed)>>,
                    IF nextStateName = "complete" THEN "deleteComplete" ELSE "none",
                    "transition")
       ELSE Outcome(stored, <<>>, "none", "dangling")

transitionToNextState(convs, userId, flow, nextStateName) ==
    LET pushed == [convs[userId] EXCEPT !.context = Append(@, nextStateName)]
        stored == MapSet(convs, userId, pushed)
    IN IF nextStateName \in DOMAIN flow.states
       THEN Outcome(stored,
                    <<interpolatePrompt(flow.states[nextStateName].prompt, pushed)>>,
                    IF nextStateName = "complete" THEN "deleteComplete" ELSE "none",
                    "transition")
       ELSE Outcome(stored, <<>>, "none", "dangling")

handleUnknownInput(convs) ==
    Outcome(convs, <<unknownNotice>>, "none", "unknown")

\* mutant: the action runs after the transition, so the prompt is rendered with
\* the userData as it was before the action
processUserInputActsLate(convs, userId, content, flow, currentState) ==
    LET userInput == trim(toLowerCase(content))
        nextStateName == findNextState(userInput, currentState.transitions)
        moved == IF nextStateName # <<>>
                 THEN transitionToNextState(convs, userId, flow, nextStateName[1])
                 ELSE handleUnknownInput(convs)
    IN [moved EXCEPT !.conversations =
           MapSet(@, userId, runAction(currentState.action, @[userId], content))]

\* mutant: an input no transition matches steps the session back one state
processUserInputStepsBack(convs, userId, content, flow, currentState) ==
    LET userInput == trim(toLowerCase(content))
        acted == MapSet(convs, userId, runAction(currentState.action, convs[userId], content))
        nextStateName == findNextState(userInput, currentState.transitions)
    IN IF nextStateName # <<>>
       THEN transitionToNextState(acted, userId, flow, nextStateName[1])
       ELSE handleUnknownInput(
                MapSet(acted, userId,
                       [acted[userId] EXCEPT !.context = SubSeq(@, 1, Len(@) - 1)]))

processUserInput(convs, userId, content, flow, currentState) ==
    LET userInput == trim(toLowerCase(content))
        acted == MapSet(convs, userId, runAction(currentState.action, convs[userId], content))
        nextStateName == findNextState(userInput, currentState.transitions)
    IN IF nextStateName # <<>>
       THEN transitionToNextState(acted, userId, flow, nextStateName[1])
       ELSE handleUnknownInput(acted)

\* mutant: lastInteraction is not set when a message is processed
processConversationKeepsTime(convs, userId, content, flow, t) ==
    LET touched == convs
        state == touched[userId]
        currentStateName ==
            IF Len(state.context) > 0 THEN Last(state.context) ELSE flow.initialState
    IN IF currentStateName \notin DOMAIN flow.states
       THEN handleConfusedState(touched, userId)
       ELSE IF Len(state.context) = 0
       THEN handleInitialState(touched, userId, flow, flow.states[currentStateName])
       ELSE processUserInput(touched, userId, content, flow, flow.states[currentStateName])

processConversation(convs, userId, content, flow, t) ==
    LET touched == MapSet(convs, userId, [convs[userId] EXCEPT !.lastInteraction = t])
        state == touched[userId]
        currentStateName ==
            IF Len(state.context) > 0 THEN Last(state.context) ELSE flow.initialState
    IN IF currentStateName \notin DOMAIN flow.states
       THEN handleConfusedState(touched, userId)
       ELSE IF Len(state.context) = 0
       THEN handleInitialState(touched, userId, flow, flow.states[currentStateName])
       ELSE processUserInput(touched, userId, content, flow, flow.states[currentStateName])

\* mutant: a new session replaces the whole store
handleNewConversationClearsOthers(convs, fl, userId, content, t, ref) ==
    LET flow == detectFlow(fl, content)
    IN IF flow # <<>>
       THEN processConversation(
                MapSet(EmptyMap, userId, createConversationState(userId, flow[1].name, t, ref)),
                userId, content, flow[1], t)
       ELSE Outcome(convs, <<>>, "none", "ignored")

\* mutant: a message without a trigger keyword drops the author's stored session
handleNewConversationDropsStale(convs, fl, userId, content, t, ref) ==
    LET flow == detectFlow(fl, content)
    IN IF flow # <<>>
       THEN processConversation(
                MapSet(convs, userId, createConversationState(userId, flow[1].name, t, ref)),
                userId, content, flow[1], t)
       ELSE Outcome(MapDelete(convs, userId), <<>>, "none", "ignored")

handleNewConversation(convs, fl, userId, content, t, ref) ==
    LET flow == detectFlow(fl, content)
    IN IF flow # <<>>
       THEN processConversation(
                MapSet(convs, userId, createConversationState(userId, flow[1].name, t, ref)),
                userId, content, flow[1], t)
       ELSE Outcome(convs, <<>>, "none", "ignored")

handleExistingConversation(convs, fl, userId, content, t) ==
    LET flow == flowsGet(fl, convs[userId].currentTopic)
    IN IF flow # <<>>
       THEN processConversation(convs, userId, content, flow[1], t)
       ELSE Outcome(convs, <<>>, "none", "noflow")

\* mutant: the expiry of a stored session is not checked
handleMessageIgnoresExpiry(convs, fl, message, t, ref) ==
    IF message.isFromBot THEN Outcome(convs, <<>>, "none", "bot")
    ELSE LET userId == message.authorId
         IN IF userId \notin DOMAIN convs
            THEN handleNewConversation(convs, fl, userId, message.content, t, ref)
            ELSE handleExistingConversation(convs, fl, userId, message.content, t)

\* handleMessage(bot, message) up to its first awaited send
handleMessage(convs, fl, message, t, ref) ==
    IF message.isFromBot THEN Outcome(convs, <<>>, "none", "bot")
    ELSE LET userId == message.authorId
         IN IF userId \notin DOMAIN convs \/ isSessionExpired(convs[userId], t)
            THEN handleNewConversation(convs, fl, userId, message.content, t, ref)
            ELSE handleExistingConversation(convs, fl, userId, message.content, t)

\* mutant: the sweep stops after the first session it deletes
cleanupStopsAfterFirst(convs, t) ==
    LET expired == {x \in DOMAIN convs : t - convs[x].lastInteraction > sessionTimeout}
    IN IF expired = {} THEN convs
       ELSE MapDelete(convs, CHOOSE x \in expired : TRUE)

\* mutant: every sweep spares one of the expired sessions
cleanupExpiredSessionsSparesOne(convs, t) ==
    LET expired == {x \in DOMAIN convs : t - convs[x].lastInteraction > sessionTimeout}
    IN IF expired = {} THEN convs
       ELSE [u \in (DOMAIN convs \ expired) \cup {CHOOSE x \in expired : TRUE} |-> convs[u]]

\* cleanupExpiredSessions(): one sweep over the entries of the map
cleanupExpiredSessions(convs, t) ==
    [u \in {x \in DOMAIN convs : ~(t - convs[x].lastInteraction > sessionTimeout)} |-> convs[u]]

----------------------------------------------------------------------------
(* State machine *)

\* What the last step showed to the outside.
\* arrival: for a message event, "bot" when it was flagged isFromBot, else what
\*          the store held for its author ("none", "expired", "live"); "-" otherwise
\* send:    the 0 or 1 calls of sendMessage the step made, as [to, text]
\* rejected: the 0 or 1 handlers whose awaited send rejected, so that the error
\*          left handleMessage, as [user, cont]
\* log:     the users log.debug reported as cleaned up
Step(arrival, send, rejected, log) ==
    [arrival |-> arrival, send |-> send, rejected |-> rejected, log |-> log]

\* no pure method has been called directly
NoCall == [fn |-> "none"]

\* registerTools of MCPBot: the names of this.tools, in insertion order
registerTools == <<"weather", "calculator", "code_analysis", "web_search">>

\* the constructors of the two bots: empty maps, the flows and the tools
\* registered, the cleanup timer armed
Init ==
    /\ conversations = EmptyMap
    /\ flows = registerConversationFlows
    /\ cleanupInterval = "running"
    /\ now = 0
    /\ inflight = EmptyBag
    /\ lastStep = Step("-", <<>>, <<>>, {})
    /\ call = NoCall
    /\ contexts = EmptyMap
    /\ tools = registerTools

\* identity for the object a handler may create: one no stored session and no
\* suspended handler refers to
FreshRef ==
    LET used == {conversations[u].ref : u \in DOMAIN conversations}
                \cup {h.ref : h \in BagToSet(inflight)}
    IN CHOOSE r \in Refs \ used : \A q \in Refs \ used : r <= q

\* the number of visitedStates entries held by the store
RECURSIVE VisitedIn(_, _)
VisitedIn(convs, users) ==
    IF users = {} THEN 0
    ELSE LET u == CHOOSE x \in users : TRUE
         IN Len(convs[u].context) + VisitedIn(convs, users \ {u})

Visited(convs) == VisitedIn(convs, DOMAIN convs)

Had(userId) ==
    IF userId \notin DOMAIN conversations THEN "none"
    ELSE IF isSessionExpired(conversations[userId], now) THEN "expired"
    ELSE "live"

\* mutant: the handler does not look at the isFromBot flag of the message
ReceiveIgnoresBotFlag(userId, content, isFromBot) ==
    /\ BagCardinality(inflight) < MaxInflight
    /\ \E out \in {handleMessage(conversations, flows,
                    [isFromBot |-> FALSE, authorId |-> userId, content |-> content],
                    now, FreshRef)} :
          /\ Visited(out.conversations) <= MaxVisited
          /\ conversations' = out.conversations
          /\ inflight' =
                 IF out.send # <<>>
                 THEN inflight (+) SetToBag({[user |-> userId, cont |-> out.cont,
                                             ref |-> IF out.cont = "none" THEN 0
                                                     ELSE out.conversations[userId].ref]})
                 ELSE inflight
          /\ lastStep' = Step(IF isFromBot THEN "bot" ELSE Had(userId),
                              IF out.send = <<>> THEN <<>>
                              ELSE <<[to |-> userId, text |-> out.send[1]]>>,
                              <<>>, {})
    /\ UNCHANGED <<flows, cleanupInterval, now, call, contexts, tools>>

\* bot.events.messageCreate: a message event is dispatched and its handler runs
\* up to `await sendMessage`, or to its end when it sends nothing
Receive(userId, content, isFromBot) ==
    /\ BagCardinality(inflight) < MaxInflight
    /\ \E out \in {handleMessage(conversations, flows,
                    [isFromBot |-> isFromBot, authorId |-> userId, content |-> content],
                    now, FreshRef)} :
          /\ Visited(out.conversations) <= MaxVisited
          /\ conversations' = out.conversations
          /\ inflight' =
                 IF out.send # <<>>
                 THEN inflight (+) SetToBag({[user |-> userId, cont |-> out.cont,
                                             ref |-> IF out.cont = "none" THEN 0
                                                     ELSE out.conversations[userId].ref]})
                 ELSE inflight
          /\ lastStep' = Step(IF isFromBot THEN "bot" ELSE Had(userId),
                              IF out.send = <<>> THEN <<>>
                              ELSE <<[to |-> userId, text |-> out.send[1]]>>,
                              <<>>, {})
    /\ UNCHANGED <<flows, cleanupInterval, now, call, contexts, tools>>

\* the awaited sendMessage of handler h settles: resolved (ok) or rejected.
\* A rejection propagates out of handleMessage and skips what follows the await.
\* A handler is [user, cont, ref]: state.userId, its place in the code, and the
\* identity of the session object it holds (0 once the handler no longer uses it).
SendDone(h, ok) ==
    /\ BagIn(h, inflight)
    /\ conversations' =
           IF ok /\ h.cont # "none"
           THEN MapDelete(conversations, h.user)
           ELSE conversations
    /\ inflight' = inflight (-) SetToBag({h})
    /\ lastStep' = Step("-", <<>>,
                        IF ok THEN <<>> ELSE <<[user |-> h.user, cont |-> h.cont]>>, {})
    /\ UNCHANGED <<flows, cleanupInterval, now, call, contexts, tools>>

\* time passes
Tick ==
    /\ now + TickStep <= MaxNow
    /\ now' = now + TickStep
    /\ lastStep' = Step("-", <<>>, <<>>, {})
    /\ UNCHANGED <<conversations, flows, cleanupInterval, inflight, call, contexts, tools>>

\* mutant: stop() leaves the timer armed, the callback keeps firing
SweepIgnoresStop ==
    /\ conversations' = cleanupExpiredSessions(conversations, now)
    /\ lastStep' = Step("-", <<>>, <<>>, DOMAIN conversations \ DOMAIN conversations')
    /\ UNCHANGED <<flows, cleanupInterval, now, inflight, call, contexts, tools>>

\* the setInterval callback of startSessionCleanup fires
Sweep ==
    /\ cleanupInterval = "running"
    /\ conversations' = cleanupExpiredSessions(conversations, now)
    /\ lastStep' = Step("-", <<>>, <<>>, DOMAIN conversations \ DOMAIN conversations')
    /\ UNCHANGED <<flows, cleanupInterval, now, inflight, call, contexts, tools>>

\* stop(): clearInterval(this.cleanupInterval)
Stop ==
    /\ cleanupInterval = "running"
    /\ cleanupInterval' = "cleared"
    /\ lastStep' = Step("-", <<>>, <<>>, {})
    /\ UNCHANGED <<conversations, flows, now, inflight, call, contexts, tools>>

\* the running bot
Next ==
    \/ \E userId \in Users, content \in Texts, isFromBot \in BOOLEAN :
           Receive(userId, content, isFromBot)
    \/ \E h \in BagToSet(inflight), ok \in BOOLEAN : SendDone(h, ok)
    \/ Tick
    \/ Sweep

Spec == Init /\ [][Next]_vars

\* the bot with its shutdown
NextLifecycle ==
    \/ Next
    \/ Stop

SpecLifecycle == Init /\ [][NextLifecycle]_vars

\* the bot when the messages of each user are processed one at a time: a
\* message of a user is dispatched only once the handler of that user's
\* previous message has settled
NextSequential ==
    \/ \E userId \in Users, content \in Texts, isFromBot \in BOOLEAN :
           /\ \A h \in BagToSet(inflight) : h.user # userId
           /\ Receive(userId, content, isFromBot)
    \/ \E h \in BagToSet(inflight), ok \in BOOLEAN : SendDone(h, ok)
    \/ Tick
    \/ Sweep

SpecSequential == Init /\ [][NextSequential]_vars

\* the bot while its cleanup timer keeps firing and time keeps passing, watched
\* up to the time MaxNow: the messages stop early enough for a session they
\* touch to be expired at MaxNow
NextReaper ==
    \/ \E userId \in Users, content \in Texts, isFromBot \in BOOLEAN :
           /\ now + sessionTimeout < MaxNow
           /\ Receive(userId, content, isFromBot)
    \/ \E h \in BagToSet(inflight), ok \in BOOLEAN : SendDone(h, ok)
    \/ Tick
    \/ Sweep

SpecReaper == Init /\ [][NextReaper]_vars /\ WF_vars(Tick) /\ WF_vars(Sweep)

\* the bot started with a flow graph in which a transition target is missing
InitCorrupted ==
    /\ conversations = EmptyMap
    /\ flows = <<"onboarding-corrupted">>
    /\ cleanupInterval = "running"
    /\ now = 0
    /\ inflight = EmptyBag
    /\ lastStep = Step("-", <<>>, <<>>, {})
    /\ call = NoCall
    /\ contexts = EmptyMap
    /\ tools = registerTools

SpecCorrupted == InitCorrupted /\ [][Next]_vars

----------------------------------------------------------------------------
(* MCPBot (week5_mcp): the pure parts.

   A character that cannot be written inside a string here (the grave accent,
   the degree sign, the pictographs that open the bot's replies) is written as
   the name of its UTF-16 code unit; a character outside the basic plane is
   the two code units of its surrogate pair, as String.prototype.length and
   substring count it. *)

GraveAccent == "U+0060"
Fence == <<GraveAccent, GraveAccent, GraveAccent>>

Digits == {"0", "1", "2", "3", "4", "5", "6", "7", "8", "9"}
Letters == {UpperChars[k] : k \in 1..26} \cup {LowerChars[k] : k \in 1..26}

\* the character classes of the three patterns of detectToolInvocation
IsSpace(c) == c \in WhiteSpace
IsDigit(c) == c \in Digits
IsWord(c) == c \in Letters \cup Digits \cup {"_"}
IsOperator(c) == c \in {"+", "-", "*", "/"}
IsSentence(c) == c \notin {".", "?", "!"}
IsArithmetic(c) == c \in Digits \cup WhiteSpace \cup {"+", "-", "*", "/", "(", ")", "."}

\* [^,] of the key=value pattern of handleMCPCommand
IsValue(c) == c # ","

\* the character classes by name
InClass(class, c) ==
    CASE class = "space" -> IsSpace(c)
      [] class = "digit" -> IsDigit(c)
      [] class = "word" -> IsWord(c)
      [] class = "sentence" -> IsSentence(c)
      [] class = "arithmetic" -> IsArithmetic(c)
      [] class = "value" -> IsValue(c)

\* the last position of the longest run of characters of a class that starts
\* at position i of s (i - 1 when the run is empty): a greedy `class*`
RunEnd(s, i, class) ==
    CHOOSE e \in (i - 1)..Len(s) :
        /\ \A j \in i..e : InClass(class, s[j])
        /\ e < Len(s) => ~InClass(class, s[e + 1])

\* the match of an unanchored pattern: absent, or the captured groups
NoMatch == [found |-> FALSE]

\* content.match(/(?:in|for|at)\s+([^.?!]+)/i) tried at position p: one of the
\* words in any case, white space, then the longest text free of . ? and !.
\* The white space is taken greedily; when nothing capturable follows it, it
\* gives its last character back to the group.
LocationMatchAt(content, p) ==
    LET Word(w) == /\ p + Len(w) - 1 <= Len(content)
                   /\ toLowerCase(SubSeq(content, p, p + Len(w) - 1)) = w
        After(q) == \* the match that goes on at position q, behind the word
            CHOOSE m \in {IF e < q THEN NoMatch
                          ELSE IF e < Len(content) /\ IsSentence(content[e + 1])
                          THEN [found |-> TRUE,
                                group |-> SubSeq(content, e + 1,
                                              RunEnd(content, e + 1, "sentence"))]
                          ELSE IF e > q
                          THEN [found |-> TRUE, group |-> <<content[e]>>]
                          ELSE NoMatch : e \in {RunEnd(content, q, "space")}} : TRUE
    IN IF Word(<<"i", "n">>) THEN After(p + 2)
       ELSE IF Word(<<"f", "o", "r">>) THEN After(p + 3)
       ELSE IF Word(<<"a", "t">>) THEN After(p + 2)
       ELSE NoMatch

\* /\d+\s*[\+\-\*\/]\s*\d+/.test(content)
ArithmeticTest(content) ==
    \E i \in 1..Len(content) :
        /\ IsDigit(content[i])
        /\ LET o == RunEnd(content, i + 1, "space") + 1
           IN /\ o <= Len(content)
              /\ IsOperator(content[o])
              /\ LET d == RunEnd(content, o + 1, "space") + 1
                 IN d <= Len(content) /\ IsDigit(content[d])

\* content.match(/[\d\s\+\-\*\/\(\)\.]+/) tried at position p
ExpressionMatchAt(content, p) ==
    IF IsArithmetic(content[p])
    THEN [found |-> TRUE, group |-> SubSeq(content, p, RunEnd(content, p, "arithmetic"))]
    ELSE NoMatch

\* content.match(/```(\w+)?\n([\s\S]+?)```/) tried at position p: a fence, an
\* optional word, a line feed, then the shortest non-empty text up to a fence
CodeMatchAt(content, p) ==
    IF ~(p + 2 <= Len(content) /\ SubSeq(content, p, p + 2) = Fence) THEN NoMatch
    ELSE LET e == RunEnd(content, p + 3, "word")
             closing == {c \in (e + 3)..(Len(content) - 2) :
                            SubSeq(content, c, c + 2) = Fence}
         IN IF e < Len(content) /\ content[e + 1] = "\n" /\ closing # {}
            THEN [found |-> TRUE,
                  language |-> SubSeq(content, p + 3, e),
                  code |-> SubSeq(content, e + 2,
                               (CHOOSE c \in closing : \A k \in closing : c <= k) - 1)]
            ELSE NoMatch

\* a pattern tried at position p, by the name of what it extracts
MatchAt(pattern, content, p) ==
    CASE pattern = "location" -> LocationMatchAt(content, p)
      [] pattern = "expression" -> ExpressionMatchAt(content, p)
      [] pattern = "code" -> CodeMatchAt(content, p)

\* String.prototype.match: the leftmost match of a pattern tried at every position
FirstMatch(content, pattern) ==
    CHOOSE m \in {IF hits = {} THEN NoMatch
                  ELSE MatchAt(pattern, content,
                               CHOOSE p \in hits : \A r \in hits : p <= r) :
                  hits \in {{p \in 1..Len(content) :
                                MatchAt(pattern, content, p).found}}} : TRUE

\* detectToolInvocation found no tool (null)
NoTool == [tool |-> "null"]

\* mutant: the calculator is looked for before the weather
detectToolInvocationCalculatorFirst(content) ==
    LET lowerContent == toLowerCase(content)
        Weather(locationMatch) ==
            /\ \/ includes(lowerContent, <<"w", "e", "a", "t", "h", "e", "r">>)
               \/ includes(lowerContent,
                      <<"t", "e", "m", "p", "e", "r", "a", "t", "u", "r", "e">>)
            /\ locationMatch.found
        Calculator(expression) == ArithmeticTest(content) /\ expression.found
        Code(codeMatch) ==
            /\ \/ includes(content, Fence)
               \/ includes(lowerContent,
                      <<"a", "n", "a", "l", "y", "z", "e", " ", "c", "o", "d", "e">>)
            /\ codeMatch.found
        Detected(locationMatch, expression, codeMatch) ==
            IF Calculator(expression)
            THEN [tool |-> "calculator",
                  params |-> [expression |-> trim(expression.group)]]
            ELSE IF Weather(locationMatch)
            THEN [tool |-> "weather",
                  params |-> [location |-> trim(locationMatch.group)]]
            ELSE IF Code(codeMatch)
            THEN [tool |-> "code_analysis",
                  params |-> [code |-> codeMatch.code,
                              language |-> IF codeMatch.language = <<>>
                                           THEN <<"u", "n", "k", "n", "o", "w", "n">>
                                           ELSE codeMatch.language]]
            ELSE NoTool
    IN Detected(FirstMatch(content, "location"), FirstMatch(content, "expression"),
                FirstMatch(content, "code"))

\* detectToolInvocation(content): weather, then calculator, then code analysis
detectToolInvocation(content) ==
    LET lowerContent == toLowerCase(content)
        Weather(locationMatch) ==
            /\ \/ includes(lowerContent, <<"w", "e", "a", "t", "h", "e", "r">>)
               \/ includes(lowerContent,
                      <<"t", "e", "m", "p", "e", "r", "a", "t", "u", "r", "e">>)
            /\ locationMatch.found
        Calculator(expression) == ArithmeticTest(content) /\ expression.found
        Code(codeMatch) ==
            /\ \/ includes(content, Fence)
               \/ includes(lowerContent,
                      <<"a", "n", "a", "l", "y", "z", "e", " ", "c", "o", "d", "e">>)
            /\ codeMatch.found
        Detected(locationMatch, expression, codeMatch) ==
            IF Weather(locationMatch)
            THEN [tool |-> "weather",
                  params |-> [location |-> trim(locationMatch.group)]]
            ELSE IF Calculator(expression)
            THEN [tool |-> "calculator",
                  params |-> [expression |-> trim(expression.group)]]
            ELSE IF Code(codeMatch)
            THEN [tool |-> "code_analysis",
                  params |-> [code |-> codeMatch.code,
                              language |-> IF codeMatch.language = <<>>
                                           THEN <<"u", "n", "k", "n", "o", "w", "n">>
                                           ELSE codeMatch.language]]
            ELSE NoTool
    IN Detected(FirstMatch(content, "location"), FirstMatch(content, "expression"),
                FirstMatch(content, "code"))

maxContextLength == 10

\* mutant: the oldest entries are kept instead of the newest
trimContextKeepsFirst(conversationHistory) ==
    IF Len(conversationHistory) > maxContextLength
    THEN SubSeq(conversationHistory, 1, maxContextLength)
    ELSE conversationHistory

\* trimContext: conversationHistory.slice(-maxContextLength) when it is longer
trimContext(conversationHistory) ==
    IF Len(conversationHistory) > maxContextLength
    THEN SubSeq(conversationHistory,
                Len(conversationHistory) - maxContextLength + 1,
                Len(conversationHistory))
    ELSE conversationHistory

\* String.prototype.startsWith, slice(n), substring(0, n), and Array.prototype.join
startsWith(s, a) == Len(a) <= Len(s) /\ SubSeq(s, 1, Len(a)) = a
sliceFrom(s, n) == SubSeq(s, n + 1, Len(s))
substring(s, n) == SubSeq(s, 1, IF Len(s) < n THEN Len(s) ELSE n)

RECURSIVE join(_, _)
join(parts, sep) ==
    IF parts = <<>> THEN <<>>
    ELSE IF Len(parts) = 1 THEN parts[1]
    ELSE parts[1] \o sep \o join(Tail(parts), sep)

\* s.split(/\s+/): the pieces between the runs of white space
RECURSIVE split(_)
split(s) ==
    LET spaces == {i \in 1..Len(s) : IsSpace(s[i])}
    IN IF spaces = {} THEN <<s>>
       ELSE LET i == CHOOSE x \in spaces : \A y \in spaces : x <= y
            IN <<SubSeq(s, 1, i - 1)>>
               \o split(SubSeq(s, RunEnd(s, i, "space") + 1, Len(s)))

\* the parameter names the tool handlers read
ParamName(key) ==
    CASE key = <<"l", "o", "c", "a", "t", "i", "o", "n">> -> "location"
      [] key = <<"e", "x", "p", "r", "e", "s", "s", "i", "o", "n">> -> "expression"
      [] key = <<"c", "o", "d", "e">> -> "code"
      [] key = <<"l", "a", "n", "g", "u", "a", "g", "e">> -> "language"
      [] key = <<"q", "u", "e", "r", "y">> -> "query"
      [] OTHER -> "unread"

\* paramString.matchAll(/(\w+)=([^,]+)/g), each match stored as
\* params[key] = value.trim(): a later match of a key replaces an earlier one
RECURSIVE parseParams(_, _)
parseParams(paramString, params) ==
    LET hits == {p \in 1..Len(paramString) :
                    LET e == RunEnd(paramString, p, "word")
                    IN /\ e >= p
                       /\ e + 2 <= Len(paramString)
                       /\ paramString[e + 1] = "="
                       /\ IsValue(paramString[e + 2])}
    IN IF hits = {} THEN params
       ELSE LET p == CHOOSE x \in hits : \A y \in hits : x <= y
                e == RunEnd(paramString, p, "word")
                v == RunEnd(paramString, e + 2, "value")
            IN parseParams(sliceFrom(paramString, v),
                           MapSet(params, ParamName(SubSeq(paramString, p, e)),
                                  trim(SubSeq(paramString, e + 2, v))))

\* String(params.name): the text 'undefined' when the parameter is missing
Param(params, name) ==
    IF name \in DOMAIN params THEN params[name] ELSE <<"u", "n", "d", "e", "f", "i",
                                                       "n", "e", "d">>

\* a call that returned a value, and one that threw
Returned(value) == [threw |-> FALSE, value |-> value]
Thrown(error) == [threw |-> TRUE, error |-> error]

\* the decimal digits of a natural number, and String(n) of an integer
RECURSIVE DigitsOf(_)
DigitsOf(n) ==
    LET d == <<"0", "1", "2", "3", "4", "5", "6", "7", "8", "9">>[(n % 10) + 1]
    IN IF n < 10 THEN <<d>> ELSE DigitsOf(n \div 10) \o <<d>>

NumberToString(n) == IF n < 0 THEN <<"-">> \o DigitsOf(0 - n) ELSE DigitsOf(n)

\* the value of a decimal literal
RECURSIVE ValueOf(_)
ValueOf(ds) ==
    IF ds = <<>> THEN 0
    ELSE 10 * ValueOf(SubSeq(ds, 1, Len(ds) - 1))
         + (CHOOSE v \in 0..9 : DigitsOf(v) = <<Last(ds)>>)

\* getAICompletion: one of four canned replies, chosen by the length of the text
getAICompletion(content) ==
    << <<"T", "h", "a", "t", "'", "s", " ", "a", "n", " ", "i", "n", "t", "e", "r",
         "e", "s", "t", "i", "n", "g", " ", "p", "o", "i", "n", "t", "!", " ", "C",
         "o", "u", "l", "d", " ", "y", "o", "u", " ", "t", "e", "l", "l", " ", "m",
         "e", " ", "m", "o", "r", "e", "?">>,
       <<"I", " ", "u", "n", "d", "e", "r", "s", "t", "a", "n", "d", " ", "w", "h",
         "a", "t", " ", "y", "o", "u", "'", "r", "e", " ", "s", "a", "y", "i", "n",
         "g", ".", " ", "L", "e", "t", " ", "m", "e", " ", "h", "e", "l", "p", " ",
         "y", "o", "u", " ", "w", "i", "t", "h", " ", "t", "h", "a", "t", ".">>,
       <<"B", "a", "s", "e", "d", " ", "o", "n", " ", "w", "h", "a", "t", " ", "y",
         "o", "u", "'", "v", "e", " ", "s", "h", "a", "r", "e", "d", ",", " ", "h",
         "e", "r", "e", "'", "s", " ", "w", "h", "a", "t", " ", "I", " ", "t", "h",
         "i", "n", "k", ".", ".", ".">>,
       <<"T", "h", "a", "t", "'", "s", " ", "a", " ", "g", "r", "e", "a", "t", " ",
         "q", "u", "e", "s", "t", "i", "o", "n", "!", " ", "H", "e", "r", "e", "'",
         "s", " ", "m", "y", " ", "p", "e", "r", "s", "p", "e", "c", "t", "i", "v",
         "e", ".", ".", ".">> >>[(Len(content) % 4) + 1]

\* the temperatures and the conditions Math.random can give handleWeatherTool
Temperatures == 10..39
Conditions ==
    { <<"S", "u", "n", "n", "y">>, <<"C", "l", "o", "u", "d", "y">>, <<"R", "a", "i",
                                                                       "n", "y">>, <<
                                                                                     "P",
                                                                                     "a",
                                                                                     "r",
                                                                                     "t",
                                                                                     "l",
                                                                                     "y",
                                                                                     " ",
                                                                                     "C",
                                                                                     "l",
                                                                                     "o",
                                                                                     "u",
                                                                                     "d",
                                                                                     "y">> }

\* handleWeatherTool, with the two values it draws at random
handleWeatherTool(params, temp, condition) ==
    Param(params, "location") \o <<":", " ">> \o NumberToString(temp) \o <<"U+00B0",
          "C", ",", " ">> \o condition

\* new Function('return ' + expression)(): the value, as the template literal
\* prints it.  The expressions the model evaluates are the empty one and the
\* name undefined, whose value is undefined, and `a op b` on decimal literals
\* without a leading zero, with an integer result; no other expression is
\* given a value.
EvalArithmetic(expression) ==
    LET a == RunEnd(expression, 1, "digit")
        o == RunEnd(expression, a + 1, "space") + 1
        b == RunEnd(expression, o + 1, "space") + 1
        x == ValueOf(SubSeq(expression, 1, a))
        y == ValueOf(SubSeq(expression, b, Len(expression)))
        literal(ds) == ds # <<>> /\ NumberToString(ValueOf(ds)) = ds
        binary == /\ literal(SubSeq(expression, 1, a))
                  /\ o <= Len(expression) /\ IsOperator(expression[o])
                  /\ b <= Len(expression)
                  /\ RunEnd(expression, b, "digit") = Len(expression)
                  /\ literal(SubSeq(expression, b, Len(expression)))
    IN CASE expression \in {<<>>, <<"u", "n", "d", "e", "f", "i", "n", "e", "d">> } -> <<
          "u", "n", "d", "e", "f", "i", "n", "e", "d">>
         [] binary /\ expression[o] = "+" -> NumberToString(x + y)
         [] binary /\ expression[o] = "-" -> NumberToString(x - y)
         [] binary /\ expression[o] = "*" -> NumberToString(x * y)
         [] binary /\ expression[o] = "/" /\ y # 0 /\ x % y = 0 -> NumberToString(x \div y)

\* handleCalculatorTool: the expression and its value; an expression that ends
\* in an operator does not parse, and the SyntaxError is caught inside
handleCalculatorTool(params) ==
    LET expression == Param(params, "expression")
    IN IF expression # <<>> /\ IsOperator(Last(expression))
       THEN <<"I", "n", "v", "a", "l", "i", "d", " ", "m", "a", "t", "h", "e", "m",
             "a", "t", "i", "c", "a", "l", " ", "e", "x", "p", "r", "e", "s", "s", "i",
             "o", "n">>
       ELSE expression \o <<" ", "=", " ">> \o EvalArithmetic(expression)

\* handleCodeAnalysisTool: the language, the number of lines, whether the code
\* holds a comment opener, and the complexity read off the number of lines
handleCodeAnalysisTool(params) ==
    LET code == Param(params, "code")
        language == IF "language" \in DOMAIN params /\ params.language # <<>>
                    THEN params.language
                    ELSE <<"u", "n", "k", "n", "o", "w", "n">>
        lines == Cardinality({i \in 1..Len(code) : code[i] = "\n"}) + 1
        hasComments == includes(code, <<"/", "/">>) \/ includes(code, <<"/", "*">>)
        yesNo == IF hasComments THEN <<"Y", "e", "s">> ELSE <<"N", "o">>
        complexity == IF lines < 50 THEN <<"L", "o", "w">>
                      ELSE IF lines < 200 THEN <<"M", "e", "d", "i", "u", "m">>
                      ELSE <<"H", "i", "g", "h">>
    IN <<"L", "a", "n", "g", "u", "a", "g", "e", ":", " ">> \o language
       \o <<"\n", "L", "i", "n", "e", "s", ":", " ">> \o NumberToString(lines)
       \o <<"\n", "H", "a", "s", " ", "C", "o", "m", "m", "e", "n", "t", "s", ":", " ">> \o yesNo
       \o <<"\n", "C", "o", "m", "p", "l", "e", "x", "i", "t", "y", ":", " ">> \o complexity

\* handleWebSearchTool: three canned results about the query
handleWebSearchTool(params) ==
    LET query == Param(params, "query")
    IN <<"S", "e", "a", "r", "c", "h", " ", "r", "e", "s", "u", "l", "t", "s", " ",
          "f", "o", "r", " ", "\"">> \o query
       \o <<"\"", ":", "\n", "1", ".", " ", "E", "x", "a", "m", "p", "l", "e", " ",
             "r", "e", "s", "u", "l", "t", " ", "a", "b", "o", "u", "t", " ">> \o query
       \o <<"\n", "2", ".", " ", "A", "n", "o", "t", "h", "e", "r", " ", "r", "e", "l",
             "e", "v", "a", "n", "t", " ", "l", "i", "n", "k", " ", "a", "b", "o", "u",
             "t", " ">> \o query
       \o <<"\n", "3", ".", " ", "D", "o", "c", "u", "m", "e", "n", "t", "a", "t", "i",
             "o", "n", " ", "f", "o", "r", " ">> \o query

\* the description of each tool
description(name) ==
    CASE name = "weather" -> <<"G", "e", "t", " ", "w", "e", "a", "t", "h", "e", "r",
          " ", "i", "n", "f", "o", "r", "m", "a", "t", "i", "o", "n", " ", "f", "o",
          "r", " ", "a", " ", "l", "o", "c", "a", "t", "i", "o", "n">>
      [] name = "calculator" -> <<"P", "e", "r", "f", "o", "r", "m", " ", "m", "a",
            "t", "h", "e", "m", "a", "t", "i", "c", "a", "l", " ", "c", "a", "l", "c",
            "u", "l", "a", "t", "i", "o", "n", "s">>
      [] name = "code_analysis" -> <<"A", "n", "a", "l", "y", "z", "e", " ", "c", "o",
            "d", "e", " ", "s", "n", "i", "p", "p", "e", "t", "s">>
      [] name = "web_search" -> <<"S", "e", "a", "r", "c", "h", " ", "t", "h", "e",
            " ", "w", "e", "b", " ", "f", "o", "r", " ", "i", "n", "f", "o", "r", "m",
            "a", "t", "i", "o", "n">>

\* the names of the registered tools
Registered(toolMap) == {toolMap[k] : k \in 1..Len(toolMap)}

\* tool.handler(params)
handler(toolName, params, temp, condition) ==
    CASE toolName = "weather" -> handleWeatherTool(params, temp, condition)
      [] toolName = "calculator" -> handleCalculatorTool(params)
      [] toolName = "code_analysis" -> handleCodeAnalysisTool(params)
      [] toolName = "web_search" -> handleWebSearchTool(params)

\* invokeTool: throws when the tool is not registered, else runs its handler
invokeTool(toolMap, toolName, params, temp, condition) ==
    IF toolName \notin Registered(toolMap)
    THEN Thrown(<<"E", "r", "r", "o", "r", ":", " ", "T", "o", "o", "l", " ">> \o <<toolName>> \o <<
          " ", "n", "o", "t", " ", "f", "o", "u", "n", "d">>)
    ELSE Returned(handler(toolName, params, temp, condition))

\* formatToolResult: a heading for the tool, then the result
formatToolResult(toolName, result) ==
    CASE toolName = "weather" -> <<"U+D83C", "U+DF24", "U+FE0F", " ", "*", "*", "W",
                                   "e", "a", "t", "h", "e", "r", " ", "R", "e", "p",
                                   "o", "r", "t", "*", "*", "\n">> \o result
      [] toolName = "calculator" -> <<"U+D83D", "U+DD22", " ", "*", "*", "C", "a",
                                      "l", "c", "u", "l", "a", "t", "i", "o", "n",
                                      " ", "R", "e", "s", "u", "l", "t", "*", "*",
                                      "\n">> \o result
      [] toolName = "code_analysis" -> <<"U+D83D", "U+DCBB", " ", "*", "*", "C", "o",
                                         "d", "e", " ", "A", "n", "a", "l", "y", "s",
                                         "i", "s", "*", "*", "\n">> \o result
      [] toolName = "web_search" -> <<"U+D83D", "U+DD0D", " ", "*", "*", "S", "e",
                                      "a", "r", "c", "h", " ", "R", "e", "s", "u",
                                      "l", "t", "s", "*", "*", "\n">> \o result
      [] OTHER -> result

\* processWithMCP: the detected tool's formatted result, else the completion
processWithMCP(toolMap, content, temp, condition) ==
    LET Formatted(toolName, result) ==
            IF result.threw THEN result
            ELSE Returned(formatToolResult(toolName, result.value))
        Processed(toolMatch) ==
            IF toolMatch # NoTool
            THEN Formatted(toolMatch.tool,
                           invokeTool(toolMap, toolMatch.tool, toolMatch.params,
                                      temp, condition))
            ELSE Returned(getAICompletion(content))
    IN Processed(detectToolInvocation(content))

----------------------------------------------------------------------------
(* MCPBot: the message handlers.  As in the conversational bot a handler runs
   without interruption up to an awaited sendMessage; the outcome of a handler
   is the context store it leaves, the text it passes to sendMessage (none:
   the handler has returned) and the place `cont` where it waits:
     "conversation"       in the try block of handleAIConversation
     "conversationCatch"  in its catch block
     "command"            in the try block of handleCommand
     "mcpTry", "mcpCatch" in the try and the catch block of handleMCPCommand,
                          both inside the try block of handleCommand
     "commandCatch"       in sendErrorResponse, called by the catch block of
                          handleCommand *)

prefix == <<"!">>

MCPOutcome(ctxs, send, cont) == [contexts |-> ctxs, send |-> send, cont |-> cont]

\* the name of a tool as text
toolChars(name) ==
    CASE name = "weather" -> <<"w", "e", "a", "t", "h", "e", "r">>
      [] name = "calculator" -> <<"c", "a", "l", "c", "u", "l", "a", "t", "o", "r">>
      [] name = "code_analysis" -> <<"c", "o", "d", "e", "_", "a", "n", "a", "l", "y",
            "s", "i", "s">>
      [] name = "web_search" -> <<"w", "e", "b", "_", "s", "e", "a", "r", "c", "h">>

aiErrorNotice ==
    <<"U+274C", " ", "S", "o", "r", "r", "y", ",", " ", "I", " ", "e", "n", "c", "o",
          "u", "n", "t", "e", "r", "e", "d", " ", "a", "n", " ", "e", "r", "r", "o",
          "r", " ", "p", "r", "o", "c", "e", "s", "s", "i", "n", "g", " ", "y", "o",
          "u", "r", " ", "m", "e", "s", "s", "a", "g", "e", ".">>

commandErrorNotice ==
    <<"U+274C", " ", "A", "n", " ", "e", "r", "r", "o", "r", " ", "o", "c", "c", "u",
          "r", "r", "e", "d", " ", "w", "h", "i", "l", "e", " ", "p", "r", "o", "c",
          "e", "s", "s", "i", "n", "g", " ", "y", "o", "u", "r", " ", "c", "o", "m",
          "m", "a", "n", "d", ".">>

\* getOrCreateContext: the store, holding a context for the user
getOrCreateContext(ctxs, userId) ==
    IF userId \in DOMAIN ctxs THEN ctxs
    ELSE MapSet(ctxs, userId,
                [userId |-> userId, conversationHistory |-> <<>>, metadata |-> EmptyMap])

\* handleAIConversation up to its first awaited send: the message is pushed and
\* the history trimmed; then either the reply is pushed and sent, or the
\* failure of the tool is caught and the failure notice sent
handleAIConversation(ctxs, toolMap, message, t, temp, condition) ==
    LET userId == message.authorId
        created == getOrCreateContext(ctxs, userId)
        pushed == Append(created[userId].conversationHistory,
                         [role |-> "user", content |-> message.content, timestamp |-> t])
        trimmed == trimContext(pushed)
        Replied(response) ==
            IF response.threw
            THEN MCPOutcome([created EXCEPT ![userId].conversationHistory = trimmed],
                            <<aiErrorNotice>>, "conversationCatch")
            ELSE MCPOutcome([created EXCEPT ![userId].conversationHistory =
                                 Append(trimmed, [role |-> "assistant",
                                                  content |-> response.value,
                                                  timestamp |-> t])],
                            <<response.value>>, "conversation")
    IN Replied(processWithMCP(toolMap, message.content, temp, condition))

showHelp(ctxs) ==
    MCPOutcome(ctxs,
        << <<"*", "*", "M", "C", "P", " ", "B", "o", "t", " ", "C", "o", "m", "m", "a",
              "n", "d", "s", ":", "*", "*", "\n">>
           \o <<"U+2022", " ", "U+0060", "!", "h", "e", "l", "p", "U+0060", " ", "-",
                 " ", "S", "h", "o", "w", " ", "t", "h", "i", "s", " ", "h", "e", "l",
                 "p", " ", "m", "e", "s", "s", "a", "g", "e", "\n">>
           \o <<"U+2022", " ", "U+0060", "!", "t", "o", "o", "l", "s", "U+0060", " ",
                 "-", " ", "L", "i", "s", "t", " ", "a", "v", "a", "i", "l", "a", "b",
                 "l", "e", " ", "M", "C", "P", " ", "t", "o", "o", "l", "s", "\n">>
           \o <<"U+2022", " ", "U+0060", "!", "c", "l", "e", "a", "r", "U+0060", " ",
                 "-", " ", "C", "l", "e", "a", "r", " ", "c", "o", "n", "v", "e", "r",
                 "s", "a", "t", "i", "o", "n", " ", "c", "o", "n", "t", "e", "x", "t",
                 "\n">>
           \o <<"U+2022", " ", "U+0060", "!", "c", "o", "n", "t", "e", "x", "t",
                 "U+0060", " ", "-", " ", "S", "h", "o", "w", " ", "c", "u", "r", "r",
                 "e", "n", "t", " ", "c", "o", "n", "t", "e", "x", "t", "\n">>
           \o <<"U+2022", " ", "U+0060", "!", "m", "c", "p", " ", "<", "t", "o", "o",
                 "l", ">", " ", "<", "p", "a", "r", "a", "m", "s", ">", "U+0060", " ",
                 "-", " ", "I", "n", "v", "o", "k", "e", " ", "M", "C", "P", " ", "t",
                 "o", "o", "l", "\n", "\n">>
           \o <<"*", "*", "A", "I", " ", "M", "o", "d", "e", ":", "*", "*", "\n", "J",
                 "u", "s", "t", " ", "t", "y", "p", "e", " ", "n", "o", "r", "m", "a",
                 "l", "l", "y", " ", "t", "o", " ", "c", "h", "a", "t", " ", "w", "i",
                 "t", "h", " ", "A", "I", " ", "a", "s", "s", "i", "s", "t", "a", "n",
                 "c", "e", "!">> >>,
        "command")

\* showTools: one line for each registered tool, in insertion order
showTools(ctxs, toolMap) ==
    MCPOutcome(ctxs,
        << <<"*", "*", "A", "v", "a", "i", "l", "a", "b", "l", "e", " ", "M", "C", "P",
              " ", "T", "o", "o", "l", "s", ":", "*", "*", "\n">>
           \o join([k \in 1..Len(toolMap) |->
                       <<"U+2022", " ", "U+0060">> \o toolChars(toolMap[k])
                       \o <<"U+0060", " ", "-", " ">>
                       \o description(toolMap[k]) \o <<"\n">>],
                   <<>>) >>,
        "command")

\* clearContext: the user's context is deleted, then the reply is sent
clearContext(ctxs, userId) ==
    MCPOutcome(MapDelete(ctxs, userId),
               <<<<"U+2705", " ", "C", "o", "n", "v", "e", "r", "s", "a", "t", "i",
                     "o", "n", " ", "c", "o", "n", "t", "e", "x", "t", " ", "c", "l",
                     "e", "a", "r", "e", "d", "!">>>>, "command")

\* showContext: the last five entries, each cut to fifty characters
showContext(ctxs, userId) ==
    IF userId \notin DOMAIN ctxs \/ ctxs[userId].conversationHistory = <<>>
    THEN MCPOutcome(ctxs, <<<<"N", "o", " ", "c", "o", "n", "v", "e", "r", "s", "a",
          "t", "i", "o", "n", " ", "c", "o", "n", "t", "e", "x", "t", " ", "f", "o",
          "u", "n", "d", ".">>>>, "command")
    ELSE LET all == ctxs[userId].conversationHistory
             recent == SubSeq(all, IF Len(all) > 5 THEN Len(all) - 4 ELSE 1, Len(all))
             history == join([k \in 1..Len(recent) |->
                                 (IF recent[k].role = "user" THEN <<"u", "s", "e", "r">> ELSE <<
                                       "a", "s", "s", "i", "s", "t", "a", "n", "t">>)
                                 \o <<":", " ">>
                                 \o substring(recent[k].content, 50) \o <<".", ".", ".">>],
                             <<"\n">>)
         IN MCPOutcome(ctxs, <<<<"*", "*", "R", "e", "c", "e", "n", "t", " ", "C", "o",
               "n", "t", "e", "x", "t", ":", "*", "*", "\n", "U+0060", "U+0060",
               "U+0060", "\n">> \o history \o <<"\n", "U+0060", "U+0060", "U+0060">>>>,
                       "command")

handleUnknownCommand(ctxs, command) ==
    MCPOutcome(ctxs,
        << <<"U", "n", "k", "n", "o", "w", "n", " ", "c", "o", "m", "m", "a", "n", "d",
              ":", " ">> \o command
           \o <<".", " ", "U", "s", "e", " ", "!", "h", "e", "l", "p", " ", "f", "o",
                 "r", " ", "a", "v", "a", "i", "l", "a", "b", "l", "e", " ", "c", "o",
                 "m", "m", "a", "n", "d", "s", ".">> >>,
        "command")

\* handleMCPCommand up to its first awaited send
handleMCPCommand(ctxs, toolMap, args, temp, condition) ==
    IF args = <<>>
    THEN MCPOutcome(ctxs, <<<<"U", "s", "a", "g", "e", ":", " ", "!", "m", "c", "p",
          " ", "<", "t", "o", "o", "l", ">", " ", "<", "p", "a", "r", "a", "m", "s", ">">>>>, "command")
    ELSE LET named == {n \in Registered(toolMap) : toolChars(n) = args[1]}
         IN IF named = {}
            THEN MCPOutcome(ctxs,
                     << <<"U", "n", "k", "n", "o", "w", "n", " ", "t", "o", "o", "l",
                           ":", " ">> \o args[1]
                        \o <<".", " ", "U", "s", "e", " ", "!", "t", "o", "o", "l",
                              "s", " ", "t", "o", " ", "s", "e", "e", " ", "a", "v",
                              "a", "i", "l", "a", "b", "l", "e", " ", "t", "o", "o",
                              "l", "s", ".">> >>,
                     "command")
            ELSE LET toolName == CHOOSE n \in named : TRUE
                     params == parseParams(join(Tail(args), <<" ">>), EmptyMap)
                 IN MCPOutcome(ctxs,
                        <<formatToolResult(toolName,
                              handler(toolName, params, temp, condition))>>,
                        "mcpTry")

\* handleCommand up to its first awaited send
handleCommand(ctxs, toolMap, message, temp, condition) ==
    LET Run(commandName, args) ==
            IF commandName = <<>> THEN MCPOutcome(ctxs, <<>>, "none")
            ELSE CASE commandName = <<"h", "e", "l", "p">> -> showHelp(ctxs)
                   [] commandName = <<"t", "o", "o", "l", "s">> -> showTools(ctxs, toolMap)
                   [] commandName = <<"c", "l", "e", "a", "r">> ->
                          clearContext(ctxs, message.authorId)
                   [] commandName = <<"c", "o", "n", "t", "e", "x", "t">> ->
                          showContext(ctxs, message.authorId)
                   [] commandName = <<"m", "c", "p">> ->
                          handleMCPCommand(ctxs, toolMap, args, temp, condition)
                   [] OTHER -> handleUnknownCommand(ctxs, commandName)
        Shift(args) == Run(toLowerCase(Head(args)), Tail(args))
    IN Shift(split(trim(sliceFrom(message.content, Len(prefix)))))

\* handleMessage of MCPBot: a bot's message is dropped, a text that starts with
\* the prefix once trimmed is a command, any other text of a channel is
\* conversation
MCPBot_handleMessage(ctxs, toolMap, message, t, temp, condition) ==
    IF message.isFromBot THEN MCPOutcome(ctxs, <<>>, "none")
    ELSE IF startsWith(trim(message.content), prefix)
    THEN handleCommand(ctxs, toolMap, message, temp, condition)
    ELSE IF message.channelId # 0
    THEN handleAIConversation(ctxs, toolMap, message, t, temp, condition)
    ELSE MCPOutcome(ctxs, <<>>, "none")

----------------------------------------------------------------------------
(* MCPBot: the state machine.  An event is a message delivered to the
   messageCreate callback, or the settling of a send a handler awaits. *)

\* the most conversationHistory entries the store holds
MaxEntries == 11

\* the number of conversationHistory entries held by the store
RECURSIVE EntriesIn(_, _)
EntriesIn(ctxs, users) ==
    IF users = {} THEN 0
    ELSE LET u == CHOOSE x \in users : TRUE
         IN Len(ctxs[u].conversationHistory) + EntriesIn(ctxs, users \ {u})

Entries(ctxs) == EntriesIn(ctxs, DOMAIN ctxs)

\* message texts the users type to MCPBot
MCPTexts ==
    { <<"5", " ", "+", " ", "3">>,
      <<"!", "c", "l", "e", "a", "r">>,
      <<"!", "m", "c", "p", " ", "w", "e", "b", "_", "s", "e", "a", "r", "c", "h", " ", "q",
        "u", "e", "r", "y", "=", "x">> }

\* what a rejected sendMessage prints as `${error}`
SendErrors == { <<"E", "r", "r", "o", "r">> }

\* the values Math.random gives: they are drawn by the weather handler only,
\* which runs only for a text that names the weather or the temperature
RandomDraws(content) ==
    IF \/ includes(toLowerCase(content), <<"w", "e", "a", "t", "h", "e", "r">>)
       \/ includes(toLowerCase(content), <<"t", "e", "m", "p", "e", "r", "a", "t", "u",
             "r", "e">>)
    THEN Temperatures \X Conditions
    ELSE {<<10, <<"S", "u", "n", "n", "y">>>>}

\* the messageCreate callback runs handleMessage up to its first awaited send
MCPReceive(userId, content, isFromBot) ==
    /\ BagCardinality(inflight) < MaxInflight
    /\ \E draw \in RandomDraws(content) :
       \E out \in {MCPBot_handleMessage(contexts, tools,
                      [isFromBot |-> isFromBot, authorId |-> userId,
                       channelId |-> 1, content |-> content],
                      now, draw[1], draw[2])} :
          /\ Entries(out.contexts) <= MaxEntries
          /\ contexts' = out.contexts
          /\ inflight' =
                 IF out.send # <<>>
                 THEN inflight (+) SetToBag({[user |-> userId, cont |-> out.cont, ref |-> 0]})
                 ELSE inflight
          /\ lastStep' = Step(IF isFromBot THEN "bot"
                              ELSE IF startsWith(trim(content), prefix) THEN "command"
                              ELSE "conversation",
                              IF out.send = <<>> THEN <<>>
                              ELSE <<[to |-> userId, text |-> out.send[1]]>>,
                              <<>>, {})
    /\ UNCHANGED <<conversations, flows, cleanupInterval, now, call, tools>>

\* the awaited sendMessage of handler h settles.  Resolved: the handler
\* returns.  Rejected inside a try block: the catch block sends its notice and
\* the handler waits again; rejected inside a catch block that no other try
\* block encloses: the error leaves handleMessage.
MCPSendDone(h, ok, error) ==
    /\ BagIn(h, inflight)
    /\ LET caught ==
               CASE h.cont = "conversation" ->
                        <<[text |-> aiErrorNotice, cont |-> "conversationCatch"]>>
                 [] h.cont = "mcpTry" ->
                        <<[text |-> <<"E", "r", "r", "o", "r", " ", "e", "x", "e", "c",
                              "u", "t", "i", "n", "g", " ", "t", "o", "o", "l", ":", " ">> \o error,
                           cont |-> "mcpCatch"]>>
                 [] h.cont \in {"command", "mcpCatch"} ->
                        <<[text |-> commandErrorNotice, cont |-> "commandCatch"]>>
                 [] OTHER -> <<>>
       IN IF ok
          THEN /\ inflight' = inflight (-) SetToBag({h})
               /\ lastStep' = Step("-", <<>>, <<>>, {})
          ELSE IF caught # <<>>
          THEN /\ inflight' = (inflight (-) SetToBag({h}))
                                  (+) SetToBag({[h EXCEPT !.cont = caught[1].cont]})
               /\ lastStep' = Step("-", <<[to |-> h.user, text |-> caught[1].text]>>,
                                   <<>>, {})
          ELSE /\ inflight' = inflight (-) SetToBag({h})
               /\ lastStep' = Step("-", <<>>, <<[user |-> h.user, cont |-> h.cont]>>, {})
    /\ UNCHANGED <<conversations, flows, cleanupInterval, now, call, contexts, tools>>

\* the running MCPBot
NextMCP ==
    \/ \E userId \in Users, content \in MCPTexts, isFromBot \in BOOLEAN :
           MCPReceive(userId, content, isFromBot)
    \/ \E h \in BagToSet(inflight), ok \in BOOLEAN, error \in SendErrors :
           MCPSendDone(h, ok, error)

SpecMCP == Init /\ [][NextMCP]_vars

\* MCPBot with a registry that lacks the calculator
InitUnregistered ==
    /\ conversations = EmptyMap
    /\ flows = registerConversationFlows
    /\ cleanupInterval = "running"
    /\ now = 0
    /\ inflight = EmptyBag
    /\ lastStep = Step("-", <<>>, <<>>, {})
    /\ call = NoCall
    /\ contexts = EmptyMap
    /\ tools = <<"weather", "code_analysis", "web_search">>

SpecUnregistered == InitUnregistered /\ [][NextMCP]_vars

----------------------------------------------------------------------------
(* Direct calls of the pure methods, as the unit tests make them: each action
   calls one method of a newly constructed bot on inputs drawn from a bounded
   set and records the call. *)

MaxTable == 2
MaxPieces == 2

\* the sequences without repetition of at most n elements of S
SeqsNoRepeat(S, n) ==
    {s \in UNION {[1..k -> S] : k \in 0..n} :
        \A i, j \in 1..Len(s) : s[i] = s[j] => i = j}

\* the sequences of at most n elements of S, concatenated
RECURSIVE Concat(_)
Concat(ss) == IF ss = <<>> THEN <<>> ELSE Head(ss) \o Concat(Tail(ss))

\* idle times around the timeout, and the times of the last interaction
IdleTimes ==
    {0, 2 * 60 * 1000, sessionTimeout - 1, sessionTimeout, sessionTimeout + 1,
     6 * 60 * 1000, 10 * 60 * 1000}
LastTimes == {0, 60 * 1000}

\* registries of flows and message texts for detectFlow
Registries == SeqsNoRepeat({"onboarding", "helpdesk"}, 2)
DetectTexts ==
    { <<"h", "e", "l", "l", "o", " ", "t", "h", "e", "r", "e">>,
      <<"h", "i", " ", "b", "o", "t">>,
      <<"g", "o", "o", "d", "b", "y", "e">>,
      <<" ", "H", "E", "L", "P", " ">>,
      <<"B", "o", "t">> }

\* transition tables for findNextState: entries [pattern, target] in the order
\* of declaration, and the raw inputs
oneOrYes ==
    [src |-> "(1|yes)", any |-> FALSE, alts |-> <<<<"1">>, <<"y", "e", "s">>>>]
catchAll == [src |-> ".*", any |-> TRUE, alts |-> <<>>]
one == [src |-> "1", any |-> FALSE, alts |-> <<<<"1">>>>]
letterB == [src |-> "b", any |-> FALSE, alts |-> <<<<"b">>>>]

TableEntries ==
    { <<oneOrYes, "A">>, <<catchAll, "B">>, <<one, "C">>, <<letterB, "D">> }
Tables == SeqsNoRepeat(TableEntries, MaxTable)
MatcherInputs ==
    { <<"1">>,
      <<" ", "Y", "e", "s", " ", "p", "l", "e", "a", "s", "e">>,
      <<"n", "a", "h">>,
      <<"b", "1">> }

\* templates and data bags for interpolatePrompt: a template is made of at most
\* MaxPieces pieces; a data bag is the sequence of its entries in the order
\* Object.entries yields them
Pieces ==
    { <<"{", "a", "}">>, <<"{", "b", "}">>, <<"{", "c", "}">>, <<"x">> }
Templates == {Concat(ps) : ps \in UNION {[1..k -> Pieces] : k \in 0..MaxPieces}}
DataKeys == { <<"a">>, <<"b">> }
DataValues == { <<"v">>, <<"{", "b", "}">>, <<"$", "&">> }
DataBags ==
    {d \in SeqsNoRepeat([key : DataKeys, value : DataValues], Cardinality(DataKeys)) :
        \A i, j \in 1..Len(d) : d[i].key = d[j].key => i = j}

\* isSessionExpired(state) at time lastInteraction + idle, and whether a sweep of
\* cleanupExpiredSessions at that time removes the session from the store
CallIsSessionExpired(last, idle) ==
    /\ call = NoCall
    /\ call' = LET state == createConversationState("u1", "onboarding", last, 1)
               IN [fn |-> "isSessionExpired", state |-> state, now |-> last + idle,
                   result |-> isSessionExpired(state, last + idle),
                   swept |-> "u1" \notin DOMAIN cleanupExpiredSessions(
                                              MapSet(EmptyMap, "u1", state), last + idle)]
    /\ UNCHANGED <<conversations, flows, cleanupInterval, now, inflight, lastStep,
                 contexts, tools>>

\* detectFlow(content) with the registry fl
CallDetectFlow(fl, content) ==
    /\ call = NoCall
    /\ call' = [fn |-> "detectFlow", flows |-> fl, content |-> content,
                result |-> detectFlow(fl, content)]
    /\ UNCHANGED <<conversations, flows, cleanupInterval, now, inflight, lastStep,
                 contexts, tools>>

\* findNextState(userInput, transitions), the input normalized as processUserInput does
CallFindNextState(content, transitions) ==
    /\ call = NoCall
    /\ call' = [fn |-> "findNextState", content |-> content, transitions |-> transitions,
                result |-> findNextState(trim(toLowerCase(content)), transitions)]
    /\ UNCHANGED <<conversations, flows, cleanupInterval, now, inflight, lastStep,
                 contexts, tools>>

\* interpolatePrompt(prompt, state)
CallInterpolatePrompt(prompt, userData) ==
    /\ call = NoCall
    /\ call' = [fn |-> "interpolatePrompt", prompt |-> prompt, userData |-> userData,
                result |-> interpolatePrompt(prompt,
                               [createConversationState("u1", "onboarding", 0, 1)
                                    EXCEPT !.userData = userData])]
    /\ UNCHANGED <<conversations, flows, cleanupInterval, now, inflight, lastStep,
                 contexts, tools>>

\* message texts for detectToolInvocation: those of the unit tests, and texts
\* in which a keyword has no parameter or two tools apply
ToolTexts ==
    { <<"w", "e", "a", "t", "h", "e", "r", " ", "i", "n", " ", "N", "e", "w",
        " ", "Y", "o", "r", "k">>,
      <<"t", "e", "m", "p", "e", "r", "a", "t", "u", "r", "e", " ", "f", "o",
        "r", " ", "L", "o", "s", " ", "A", "n", "g", "e", "l", "e", "s">>,
      <<"w", "h", "a", "t", " ", "i", "s", " ", "t", "h", "e", " ", "w", "e",
        "a", "t", "h", "e", "r", " ", "a", "t", " ", "B", "e", "r", "l", "i",
        "n">>,
      <<"W", "e", "a", "t", "h", "e", "r", " ", "a", "t", " ", "T", "o", "k",
        "y", "o", " ", "p", "l", "e", "a", "s", "e">>,
      <<"C", "a", "l", "c", "u", "l", "a", "t", "e", " ", "5", " ", "+", " ",
        "3">>,
      <<"1", "0", " ", "*", " ", "2", "0", " ", "e", "q", "u", "a", "l", "s",
        " ", "w", "h", "a", "t", "?">>,
      <<"W", "h", "a", "t", " ", "i", "s", " ", "4", "2", " ", "/", " ", "6",
        "?">>,
      <<"4", "2", " ", "/", " ", "6">>,
      <<"w", "e", "a", "t", "h", "e", "r", " ", "5", " ", "+", " ", "3">>,
      <<"t", "e", "m", "p", "e", "r", "a", "t", "u", "r", "e">>,
      <<"w", "e", "a", "t", "h", "e", "r", " ", "i", "n", " ", "R", "o", "m",
        "e", " ", "1", "+", "1">>,
      <<"2", "*", "3", " ", GraveAccent, GraveAccent, GraveAccent, "\n", "x",
        GraveAccent, GraveAccent, GraveAccent>>,
      <<GraveAccent, GraveAccent, GraveAccent, "p", "y", "t", "h", "o", "n",
        "\n", "p", "r", "i", "n", "t", "(", "\"", "h", "e", "l", "l", "o",
        "\"", ")", "\n", GraveAccent, GraveAccent, GraveAccent>>,
      <<GraveAccent, GraveAccent, GraveAccent, "\n", "f", "u", "n", "c", "t",
        "i", "o", "n", " ", "t", "e", "s", "t", "(", ")", " ", "{", "}",
        "\n", GraveAccent, GraveAccent, GraveAccent>>,
      <<"a", "n", "a", "l", "y", "z", "e", " ", "c", "o", "d", "e", ":", " ",
        "f", "u", "n", "c", "t", "i", "o", "n", "(", ")", " ", "{", "}">>,
      <<"1", "+", "2", "+">>,
      <<"H", "e", "l", "l", "o", " ", "t", "h", "e", "r", "e">> }

\* the longest history handed to trimContext
MaxHistory == 15

\* the history of the unit test: 'Message 0', 'Message 1', ...
MessageHistory(n) ==
    [i \in 1..n |-> [role |-> "user", content |-> <<"Message ", ToString(i - 1)>>]]

\* detectToolInvocation(content)
CallDetectToolInvocation(content) ==
    /\ call = NoCall
    /\ call' = [fn |-> "detectToolInvocation", content |-> content,
                result |-> detectToolInvocation(content)]
    /\ UNCHANGED <<conversations, flows, cleanupInterval, now, inflight, lastStep,
                 contexts, tools>>

\* trimContext(context) on a history of n entries
CallTrimContext(n) ==
    /\ call = NoCall
    /\ call' = [fn |-> "trimContext", conversationHistory |-> MessageHistory(n),
                result |-> trimContext(MessageHistory(n))]
    /\ UNCHANGED <<conversations, flows, cleanupInterval, now, inflight, lastStep,
                 contexts, tools>>

\* processWithMCP(content, context) of a newly constructed bot
CallProcessWithMCP(content, temp, condition) ==
    /\ call = NoCall
    /\ call' = [fn |-> "processWithMCP", content |-> content,
                result |-> processWithMCP(registerTools, content, temp, condition)]
    /\ UNCHANGED <<conversations, flows, cleanupInterval, now, inflight, lastStep,
                 contexts, tools>>

NextCalls ==
    \/ \E last \in LastTimes, idle \in IdleTimes : CallIsSessionExpired(last, idle)
    \/ \E fl \in Registries, content \in DetectTexts : CallDetectFlow(fl, content)
    \/ \E content \in MatcherInputs, transitions \in Tables :
           CallFindNextState(content, transitions)
    \/ \E prompt \in Templates, userData \in DataBags :
           CallInterpolatePrompt(prompt, userData)
    \/ \E content \in ToolTexts : CallDetectToolInvocation(content)
    \/ \E n \in 0..MaxHistory : CallTrimContext(n)
    \/ \E content \in ToolTexts, temp \in Temperatures, condition \in Conditions :
           CallProcessWithMCP(content, temp, condition)

SpecCalls == Init /\ [][NextCalls]_vars

----------------------------------------------------------------------------
(* Properties *)

IsPrefix(s, r) == Len(s) <= Len(r) /\ SubSeq(r, 1, Len(s)) = s

Processing(userId) == \E h \in BagToSet(inflight) : h.user = userId

normalize(content) == trim(toLowerCase(content))

\* the session of userId is stored, not expired, and its current state resolves
LiveAt(userId) ==
    /\ userId \in DOMAIN conversations
    /\ ~isSessionExpired(conversations[userId], now)
    /\ flowsGet(flows, conversations[userId].currentTopic) # <<>>
    /\ Len(conversations[userId].context) > 0
    /\ Last(conversations[userId].context) \in
           DOMAIN flowsGet(flows, conversations[userId].currentTopic)[1].states

CurrentState(userId) ==
    flowsGet(flows, conversations[userId].currentTopic)[1]
        .states[Last(conversations[userId].context)]

(* C1: whenever no message of a user is being processed, the stored session of
   that user does not have 'complete' as its current (last visited) state. *)
C1_NoStoredTerminalSession ==
    \A u \in DOMAIN conversations :
        ~Processing(u) =>
            \/ conversations[u].context = <<>>
            \/ Last(conversations[u].context) # "complete"

(* C2: two messages of the same user are never processed concurrently: at most
   one handler of a user is suspended at any time. *)
C2_OneHandlerPerUser ==
    \A u \in Users :
        BagCardinality([h \in {g \in BagToSet(inflight) : g.user = u} |->
                            CopiesIn(h, inflight)]) <= 1

(* C3: a message that creates a session (no session or an expired one, and a
   trigger matches) leaves the session with visitedStates = [initialState] and
   empty userData, and what it sends is exactly the initial state's prompt:
   neither the action nor the transitions of the initial state were applied. *)
C3_FirstMessageEntersInitialState ==
    [][\A u \in Users, c \in Texts :
          ( /\ lastStep'.arrival \in {"none", "expired"}
            /\ u \notin DOMAIN conversations \/ isSessionExpired(conversations[u], now)
            /\ detectFlow(flows, c) # <<>>
            /\ Receive(u, c, FALSE) )
          => LET flow == detectFlow(flows, c)[1]
             IN /\ u \in DOMAIN conversations'
                /\ conversations'[u].context = <<flow.initialState>>
                /\ conversations'[u].userData = <<>>
                /\ lastStep'.send =
                       <<[to |-> u, text |-> flow.states[flow.initialState].prompt]>>
                /\ BagCardinality(inflight') = BagCardinality(inflight) + 1]_vars

C3_Witness ==
    /\ lastStep.arrival = "none"
    /\ lastStep.send # <<>>
    /\ lastStep.send[1].text = createOnboardingFlow.states["greeting"].prompt
    /\ conversations[lastStep.send[1].to].context = <<"greeting">>
    /\ conversations[lastStep.send[1].to].userData = <<>>

(* C4: for a message to a live session whose current state resolves, the action
   runs on the raw input, the matcher on the normalized input; if the matcher
   returns t, exactly t is appended to visitedStates and the text sent is t's
   prompt rendered with the userData the action left. *)
C4_ActionThenTransition ==
    [][\A u \in Users, c \in Texts :
          ( /\ lastStep'.arrival = "live"
            /\ LiveAt(u)
            /\ Receive(u, c, FALSE) )
          => LET flow == flowsGet(flows, conversations[u].currentTopic)[1]
                 acted == runAction(CurrentState(u).action, conversations[u], c)
                 t == findNextState(normalize(c), CurrentState(u).transitions)
             IN t # <<>> =>
                  /\ conversations'[u].context = Append(conversations[u].context, t[1])
                  /\ Len(conversations'[u].context) = Len(conversations[u].context) + 1
                  /\ conversations'[u].userData = acted.userData
                  /\ lastStep'.send =
                         <<[to |-> u,
                            text |-> interpolatePrompt(flow.states[t[1]].prompt, acted)]>>]_vars

C4_Witness ==
    /\ lastStep.arrival = "live"
    /\ lastStep.send # <<>>
    /\ lastStep.send[1].text =
           <<"N", "i", "c", "e", " ", "t", "o", " ", "m", "e", "e", "t", " ",
             "y", "o", "u", ",", " ", "H", "e", "l", "l", "o", "!">>
    /\ conversations[lastStep.send[1].to].context = <<"greeting", "askPurpose">>
    /\ conversations[lastStep.send[1].to].userData =
           <<[key |-> <<"n", "a", "m", "e">>, value |-> <<"H", "e", "l", "l", "o">>]>>

(* C5: visitedStates is append-only: across a step that keeps the same session
   object in the store, the old history is a prefix of the new one. *)
C5_VisitedStatesAppendOnly ==
    [][\A u \in DOMAIN conversations \cap DOMAIN conversations' :
          conversations'[u].ref = conversations[u].ref
          => IsPrefix(conversations[u].context, conversations'[u].context)]_vars

C5_Witness ==
    /\ lastStep.arrival = "live"
    /\ lastStep.send # <<>>
    /\ lastStep.send[1].text # unknownNotice
    /\ lastStep.send[1].to \in DOMAIN conversations
    /\ Len(conversations[lastStep.send[1].to].context) >= 3

(* C6: the handler that found the current state of a live session unresolvable
   and sent the recovery notice ends with that user's session deleted, with no
   error raised out of message handling, and with every other user's session
   unchanged. *)
C6_RecoveryDeletesWithoutError ==
    [][\A h \in BagToSet(inflight) :
          (h.cont = "deleteConfused" /\ \E ok \in BOOLEAN : SendDone(h, ok))
          => /\ lastStep'.rejected = <<>>
             /\ h.user \notin DOMAIN conversations'
             /\ \A v \in Users \ {h.user} :
                    /\ v \in DOMAIN conversations <=> v \in DOMAIN conversations'
                    /\ v \in DOMAIN conversations => conversations'[v] = conversations[v]]_vars

(* C7: a message for a user whose stored session is expired is handled as if
   the user had no session: detection runs on this message; on a trigger match
   a fresh session with visitedStates = [initialState] and empty userData
   replaces the old one; otherwise nothing is sent and the store is unchanged.
   The expired session is never advanced. *)
C7_ExpiredTreatedAsNoSession ==
    [][\A u \in Users, c \in Texts :
          ( /\ lastStep'.arrival = "expired"
            /\ u \in DOMAIN conversations
            /\ isSessionExpired(conversations[u], now)
            /\ Receive(u, c, FALSE) )
          => LET without == handleMessage(MapDelete(conversations, u), flows,
                                [isFromBot |-> FALSE, authorId |-> u, content |-> c],
                                now, FreshRef)
             IN /\ lastStep'.send = IF without.send = <<>> THEN <<>>
                                     ELSE <<[to |-> u, text |-> without.send[1]]>>
                /\ IF detectFlow(flows, c) # <<>>
                   THEN /\ conversations'[u] = without.conversations[u]
                        /\ conversations'[u].ref # conversations[u].ref
                        /\ conversations'[u].context =
                               <<detectFlow(flows, c)[1].initialState>>
                        /\ conversations'[u].userData = <<>>
                   ELSE /\ conversations' = conversations
                        /\ lastStep'.send = <<>>]_vars

C7_Witness ==
    /\ lastStep.arrival = "expired"
    /\ lastStep.send # <<>>
    /\ conversations[lastStep.send[1].to].context = <<"greeting">>
    /\ conversations[lastStep.send[1].to].lastInteraction = now

(* C8: when the matcher returns none for a message to a live session, the
   "didn't understand" notice is sent, visitedStates is unchanged and the same
   session stays in the store. *)
C8_UnknownInputKeepsState ==
    [][\A u \in Users, c \in Texts :
          ( /\ lastStep'.arrival = "live"
            /\ LiveAt(u)
            /\ findNextState(normalize(c), CurrentState(u).transitions) = <<>>
            /\ Receive(u, c, FALSE) )
          => /\ lastStep'.send = <<[to |-> u, text |-> unknownNotice]>>
             /\ u \in DOMAIN conversations'
             /\ conversations'[u].ref = conversations[u].ref
             /\ conversations'[u].context = conversations[u].context]_vars

C8_Witness ==
    /\ lastStep.arrival = "live"
    /\ lastStep.send # <<>>
    /\ lastStep.send[1].text = unknownNotice
    /\ lastStep.send[1].to \in DOMAIN conversations
    /\ Last(conversations[lastStep.send[1].to].context) = "complete"

(* C9: a sweep of the reaper never removes the session of a user one of whose
   messages is being processed. *)
C9_SweepSparesUsersBeingProcessed ==
    [][Sweep => \A u \in DOMAIN conversations :
                    Processing(u) => u \in DOMAIN conversations']_vars

(* C10: a sweep deletes exactly the sessions that are expired when it runs:
   every expired session is gone afterwards, every other session is still
   stored and unchanged, and no session appears. *)
C10_SweepDeletesExactlyExpired ==
    [][Sweep =>
          /\ DOMAIN conversations' \subseteq DOMAIN conversations
          /\ \A u \in DOMAIN conversations :
                IF isSessionExpired(conversations[u], now)
                THEN u \notin DOMAIN conversations'
                ELSE u \in DOMAIN conversations' /\ conversations'[u] = conversations[u]]_vars

C10_Witness ==
    /\ lastStep.log # {}
    /\ DOMAIN conversations # {}
    /\ \A u \in DOMAIN conversations : ~isSessionExpired(conversations[u], now)

(* C11: isSessionExpired answers true exactly when now - lastInteraction is
   strictly greater than the timeout of 5 minutes (6 and 10 minutes idle are
   expired; 2 minutes and exactly 5 minutes are not), and a sweep of the
   reaper at the same time removes the session exactly when it answers true. *)
C11_ExpiredIffIdleLongerThanTimeout ==
    call.fn = "isSessionExpired" =>
        LET idle == call.now - call.state.lastInteraction
        IN /\ call.result <=> idle > 5 * 60 * 1000
           /\ idle \in {6 * 60 * 1000, 10 * 60 * 1000} => call.result
           /\ idle \in {2 * 60 * 1000, 5 * 60 * 1000} => ~call.result
           /\ call.swept <=> call.result

C11_Witness ==
    /\ call.fn = "isSessionExpired"
    /\ call.now - call.state.lastInteraction = sessionTimeout
    /\ call.state.lastInteraction > 0
    /\ ~call.result
    /\ ~call.swept

(* C12: users are isolated: a step that changes the session of a user
   (visitedStates, userData, lastInteraction or existence) is neither the
   handling of a message of another user nor the continuation, after its
   awaited send, of a handler of another user. *)
C12_UsersAreIsolated ==
    [][/\ \A u \in Users :
            (\E v \in Users \ {u} :
                \/ (v \in DOMAIN conversations) # (v \in DOMAIN conversations')
                \/ v \in DOMAIN conversations /\ conversations'[v] # conversations[v])
            => \/ lastStep'.arrival = "-"
               \/ \A c \in Texts, b \in BOOLEAN : ~Receive(u, c, b)
       /\ \A h \in BagToSet(inflight) :
            (\E ok \in BOOLEAN : SendDone(h, ok))
            => \A v \in Users \ {h.user} :
                  /\ (v \in DOMAIN conversations) = (v \in DOMAIN conversations')
                  /\ v \in DOMAIN conversations => conversations'[v] = conversations[v]]_vars

C12_Witness ==
    /\ lastStep.arrival = "live"
    /\ lastStep.send # <<>>
    /\ lastStep.send[1].to = "u1"
    /\ DOMAIN conversations = {"u1", "u2"}
    /\ conversations["u1"].userData # <<>>
    /\ conversations["u2"].userData # <<>>
    /\ conversations["u1"].userData # conversations["u2"].userData

(* C13: no error raised while a message is processed leaves the message entry
   point: the rejection of an awaited send is caught there, so no step shows
   a handler ended by an error. *)
C13_NoErrorLeavesHandleMessage ==
    lastStep.rejected = <<>>

(* C14: findNextState returns the target of the first entry, in the order in
   which the transition table declares its entries, whose pattern matches the
   lower-cased, trimmed input as an unanchored, case-insensitive pattern, and
   nothing when no pattern matches; with the table {"(1|yes)": A, ".*": B} the
   inputs "1" and "yes please" give A and "nah" gives B. *)
C14_FirstDeclaredPatternWins ==
    call.fn = "findNextState" =>
        LET input == trim(toLowerCase(call.content))
            hit == {i \in 1..Len(call.transitions) :
                       RegExpTest(call.transitions[i][1], input)}
        IN /\ call.result =
                  IF hit = {} THEN <<>>
                  ELSE <<call.transitions[CHOOSE i \in hit : \A j \in hit : i <= j][2]>>
           /\ call.transitions = << <<oneOrYes, "A">>, <<catchAll, "B">> >> =>
                  call.result = IF input = <<"n", "a", "h">> THEN <<"B">> ELSE <<"A">>

(* C15: wherever the catch-all pattern `.*` stands in the transition table,
   findNextState returns its target only when no other pattern of the table
   matches the input, and returns nothing only when the table has no
   catch-all and no other pattern matches. *)
C15_CatchAllOnlyAsFallback ==
    call.fn = "findNextState" =>
        LET input == trim(toLowerCase(call.content))
            table == call.transitions
            explicit == {i \in 1..Len(table) :
                            table[i][1].src # ".*" /\ RegExpTest(table[i][1], input)}
            fallback == {i \in 1..Len(table) : table[i][1].src = ".*"}
        IN /\ explicit # {} => call.result \in {<<table[i][2]>> : i \in explicit}
           /\ (explicit = {} /\ fallback # {}) =>
                  call.result \in {<<table[i][2]>> : i \in fallback}
           /\ call.result = <<>> <=> (explicit = {} /\ fallback = {})

\* the template with every placeholder {key} of a key of the data bag replaced,
\* in one pass from left to right, by the value of the key
RECURSIVE SubstituteAll(_, _)
SubstituteAll(template, userData) ==
    IF template = <<>> THEN <<>>
    ELSE LET at == {i \in 1..Len(userData) :
                       LET placeholder == <<"{">> \o userData[i].key \o <<"}">>
                       IN /\ Len(placeholder) <= Len(template)
                          /\ SubSeq(template, 1, Len(placeholder)) = placeholder}
         IN IF at = {}
            THEN <<Head(template)>> \o SubstituteAll(Tail(template), userData)
            ELSE LET i == CHOOSE j \in at : TRUE
                 IN userData[i].value
                    \o SubstituteAll(SubSeq(template, Len(userData[i].key) + 3, Len(template)),
                                     userData)

(* C16: interpolatePrompt replaces every occurrence of {key} in the template by
   the value of the key, for every key of the data bag, a placeholder that
   occurs twice being replaced twice (stated for values that are plain text:
   no brace, no dollar sign). *)
C16_EveryOccurrenceReplaced ==
    call.fn = "interpolatePrompt" =>
        ( (\A i \in 1..Len(call.userData) :
              \A k \in 1..Len(call.userData[i].value) :
                  call.userData[i].value[k] \notin {"{", "}", "$"})
          => call.result = SubstituteAll(call.prompt, call.userData) )

\* the entries of a data bag in the opposite order
Reverse(s) == [i \in 1..Len(s) |-> s[Len(s) + 1 - i]]

(* C17: interpolatePrompt never scans a substituted value again and does not
   depend on the order of the keys: a template that is the placeholder of one
   key renders as that key's value verbatim, even when the value contains the
   placeholder of another key of the data bag, and the result is the same when
   the keys of the data bag are enumerated in the opposite order (stated for
   values without a dollar sign). *)
C17_NonRecursiveAndOrderIndependent ==
    call.fn = "interpolatePrompt" =>
        ( (\A i \in 1..Len(call.userData) :
              \A k \in 1..Len(call.userData[i].value) : call.userData[i].value[k] # "$")
          => /\ \A i \in 1..Len(call.userData) :
                    call.prompt = <<"{">> \o call.userData[i].key \o <<"}">>
                    => call.result = call.userData[i].value
             /\ call.result =
                    interpolatePrompt(call.prompt,
                        [createConversationState("u1", "onboarding", 0, 1)
                             EXCEPT !.userData = Reverse(call.userData)]) )

\* the number of occurrences of `a` in `s`
occurrences(s, a) ==
    Cardinality({i \in 1..(Len(s) - Len(a) + 1) : SubSeq(s, i, i + Len(a) - 1) = a})

(* C18: interpolatePrompt leaves alone what it has no data for: every
   occurrence of the placeholder of a key that is absent from the data bag is
   still in the output (and their number is the same when the values are plain
   text), and a template in which no placeholder of a key of the data bag
   occurs, in particular one without any placeholder, is returned unchanged
   whatever the data bag holds. *)
C18_UnknownPlaceholdersKept ==
    call.fn = "interpolatePrompt" =>
        LET keys == {call.userData[i].key : i \in 1..Len(call.userData)}
            plain == \A i \in 1..Len(call.userData) :
                        \A k \in 1..Len(call.userData[i].value) :
                            call.userData[i].value[k] \notin {"{", "}", "$"}
        IN /\ \A key \in {<<"a">>, <<"b">>, <<"c">>} \ keys :
                  LET placeholder == <<"{">> \o key \o <<"}">>
                  IN /\ occurrences(call.result, placeholder)
                            >= occurrences(call.prompt, placeholder)
                     /\ plain => occurrences(call.result, placeholder)
                                     = occurrences(call.prompt, placeholder)
           /\ (\A key \in keys : ~includes(call.prompt, <<"{">> \o key \o <<"}">>))
                  => call.result = call.prompt

C18_Witness ==
    /\ call.fn = "interpolatePrompt"
    /\ call.prompt = <<"{", "a", "}", "{", "c", "}">>
    /\ call.userData = <<[key |-> <<"a">>, value |-> <<"v">>]>>
    /\ call.result = <<"v", "{", "c", "}">>

(* C19: the onboarding scenario.  A message containing "hello" from a user
   without a session creates a session in state 'greeting' and sends the
   greeting prompt; the next message X of that user, the session being live,
   stores name = X trimmed with its letter case kept, moves to 'askPurpose',
   and the prompt sent is askPurpose's prompt with that name in place of
   {name}. *)
C19_OnboardingGreetsByName ==
    [][\A u \in Users, c \in Texts :
          /\ ( /\ lastStep'.arrival = "none"
               /\ includes(trim(toLowerCase(c)), <<"h", "e", "l", "l", "o">>)
               /\ Receive(u, c, FALSE) )
             => /\ conversations'[u].context = <<"greeting">>
                /\ lastStep'.send =
                       <<[to |-> u, text |-> createOnboardingFlow.states["greeting"].prompt]>>
          /\ ( /\ lastStep'.arrival = "live"
               /\ LiveAt(u)
               /\ conversations[u].context = <<"greeting">>
               /\ Receive(u, c, FALSE) )
             => /\ conversations'[u].context = <<"greeting", "askPurpose">>
                /\ conversations'[u].userData =
                       <<[key |-> <<"n", "a", "m", "e">>, value |-> trim(c)]>>
                /\ lastStep'.send =
                       <<[to |-> u,
                          text |-> <<"N", "i", "c", "e", " ", "t", "o", " ", "m", "e", "e", "t",
                                     " ", "y", "o", "u", ",", " ">> \o trim(c) \o <<"!">>]>>]_vars

(* C20: detectFlow returns the first flow, in the order of registration, one of
   whose trigger keywords is a substring of the lower-cased, trimmed message
   text, and nothing when no registered flow has such a keyword; with the
   onboarding flow registered, "hello there" and "hi bot" are detected and
   "goodbye" is not. *)
C20_FirstRegisteredMatchingFlow ==
    call.fn = "detectFlow" =>
        LET text == trim(toLowerCase(call.content))
            hit == {i \in 1..Len(call.flows) :
                       \E k \in 1..Len(FlowOf(call.flows[i]).triggers) :
                           includes(text, FlowOf(call.flows[i]).triggers[k])}
        IN /\ call.result =
                  IF hit = {} THEN <<>>
                  ELSE <<FlowOf(call.flows[CHOOSE i \in hit : \A j \in hit : i <= j])>>
           /\ ( /\ \E i \in 1..Len(call.flows) : call.flows[i] = "onboarding"
                /\ call.content \in { <<"h", "e", "l", "l", "o", " ", "t", "h", "e", "r", "e">>,
                                      <<"h", "i", " ", "b", "o", "t">> } )
                  => call.result # <<>>
           /\ call.content = <<"g", "o", "o", "d", "b", "y", "e">> => call.result = <<>>

C20_Witness ==
    /\ call.fn = "detectFlow"
    /\ call.flows = <<"helpdesk", "onboarding">>
    /\ call.content = <<"h", "i", " ", "b", "o", "t">>
    /\ call.result = <<helpdeskFlow>>

(* C21: in every reachable state the currentTopic of every stored session
   names a flow of the registry, and detectFlow, whatever the message text,
   returns nothing or a flow of the registry. *)
C21_SessionsNameRegisteredFlows ==
    /\ \A u \in DOMAIN conversations :
          flowsGet(flows, conversations[u].currentTopic) # <<>>
    /\ \A c \in Texts :
          \A k \in 1..Len(detectFlow(flows, c)) :
              \E i \in 1..Len(flows) : detectFlow(flows, c)[k] = FlowOf(flows[i])

C21_Witness ==
    /\ DOMAIN conversations = Users
    /\ \A u \in Users : conversations[u].currentTopic = "onboarding"
    /\ \E u \in Users : Len(conversations[u].context) >= 2

(* C22: every message processed against a session (answered with the initial
   prompt, the next prompt, the "didn't understand" notice or the recovery
   notice) leaves that session with lastInteraction equal to the time of
   processing, and no step makes the lastInteraction of a user's stored
   session decrease. *)
C22_ProcessingRefreshesLastInteraction ==
    [][/\ lastStep'.send # <<>> =>
            /\ lastStep'.send[1].to \in DOMAIN conversations'
            /\ conversations'[lastStep'.send[1].to].lastInteraction = now
       /\ \A u \in DOMAIN conversations \cap DOMAIN conversations' :
            conversations'[u].lastInteraction >= conversations[u].lastInteraction]_vars

C22_Witness ==
    /\ lastStep.arrival = "live"
    /\ lastStep.send # <<>>
    /\ now = TickStep
    /\ conversations[lastStep.send[1].to].lastInteraction = now
    /\ Len(conversations[lastStep.send[1].to].context) = 2

(* C23: a message flagged as coming from a bot is dropped before any
   processing: the store is left as it was (no session created, advanced,
   refreshed or deleted), nothing is passed to sendMessage and no handler is
   left waiting. *)
C23_BotMessagesAreDropped ==
    [][lastStep'.arrival = "bot" =>
          /\ conversations' = conversations
          /\ lastStep'.send = <<>>
          /\ inflight' = inflight]_vars

C23_Witness ==
    /\ lastStep.arrival = "bot"
    /\ DOMAIN conversations = Users
    /\ \E u \in Users : isSessionExpired(conversations[u], now)
    /\ \E u \in Users : ~isSessionExpired(conversations[u], now)

(* C24: a message, not flagged as a bot's, from a user with no stored session
   whose text contains no trigger keyword is ignored: no session is created,
   the store is unchanged, nothing is passed to sendMessage and no handler is
   left waiting. *)
C24_NoTriggerNoSession ==
    [][\A u \in Users, c \in Texts :
          ( /\ lastStep'.arrival = "none"
            /\ u \notin DOMAIN conversations
            /\ \A k \in 1..Len(createOnboardingFlow.triggers) :
                  indexOf(trim(toLowerCase(c)), createOnboardingFlow.triggers[k]) = 0
            /\ Receive(u, c, FALSE) )
          => /\ conversations' = conversations
             /\ lastStep'.send = <<>>
             /\ inflight' = inflight]_vars

C24_Witness ==
    /\ lastStep.arrival = "none"
    /\ lastStep.send = <<>>
    /\ Cardinality(DOMAIN conversations) = 1
    /\ BagCardinality(inflight) = 1

(* C25: once stop() has cleared the timer it stays cleared and no sweep runs:
   from then on a session leaves the store only when the handler of a message
   of its own user deletes it after its send, never through the passing of
   time, and no step logs a cleaned-up session. *)
C25_NoSweepAfterStop ==
    [][cleanupInterval = "cleared" =>
          /\ cleanupInterval' = "cleared"
          /\ lastStep'.log = {}
          /\ \A u \in DOMAIN conversations \ DOMAIN conversations' :
                \E h \in BagToSet(inflight) :
                    /\ h.user = u
                    /\ h.cont # "none"
                    /\ inflight' = inflight (-) SetToBag({h})]_vars

C25_Witness ==
    /\ cleanupInterval = "cleared"
    /\ now = MaxNow
    /\ \E u \in DOMAIN conversations : isSessionExpired(conversations[u], now)
    /\ \E u \in Users : u \notin DOMAIN conversations

\* a tool applies to a text when its trigger is present and its parameter can
\* be extracted
ToolApplies(content, tool) ==
    LET lower == toLowerCase(content)
    IN CASE tool = "weather" ->
               /\ includes(lower, <<"w", "e", "a", "t", "h", "e", "r">>) \/ includes(lower, <<
                                                                                              "t",
                                                                                              "e",
                                                                                              "m",
                                                                                              "p",
                                                                                              "e",
                                                                                              "r",
                                                                                              "a",
                                                                                              "t",
                                                                                              "u",
                                                                                              "r",
                                                                                              "e">>)
               /\ \E p \in 1..Len(content) : LocationMatchAt(content, p).found
         [] tool = "calculator" ->
               /\ ArithmeticTest(content)
               /\ \E p \in 1..Len(content) : ExpressionMatchAt(content, p).found
         [] tool = "code_analysis" ->
               /\ includes(content, Fence) \/ includes(lower, <<"a", "n", "a", "l",
                                                                "y", "z", "e", " ",
                                                                "c", "o", "d", "e">>)
               /\ \E p \in 1..Len(content) : CodeMatchAt(content, p).found

(* C27: tool detection answers with the first of weather, calculator and
   code_analysis, in this order, whose trigger is present and whose parameter
   can be extracted; a weather or temperature keyword without a location
   phrase lets the later tools be found; when none applies it answers none and
   processWithMCP replies with the free-form completion, and only then. *)
C27_FirstApplicableToolInOrder ==
    LET applicable ==
            SelectSeq(<<"weather", "calculator", "code_analysis">>,
                      LAMBDA tool : ToolApplies(call.content, tool))
    IN /\ call.fn = "detectToolInvocation" =>
             /\ IF applicable = <<>> THEN call.result = NoTool
                ELSE call.result.tool = Head(applicable)
             /\ call.content = <<"w", "e", "a", "t", "h", "e", "r", " ", "5", " ",
                                 "+", " ", "3">> => call.result.tool = "calculator"
             /\ call.content = <<"w", "e", "a", "t", "h", "e", "r", " ", "i", "n",
                                 " ", "R", "o", "m", "e", " ", "1", "+", "1">> => call.result.tool = "weather"
             /\ call.content = <<"W", "e", "a", "t", "h", "e", "r", " ", "a", "t",
                                 " ", "T", "o", "k", "y", "o", " ", "p", "l", "e",
                                 "a", "s", "e">> => call.result.tool = "weather"
             /\ call.content \in {<<"H", "e", "l", "l", "o", " ", "t", "h", "e", "r",
                                    "e">>, <<"t", "e", "m", "p", "e", "r", "a", "t",
                                             "u", "r", "e">>,
                                  <<"a", "n", "a", "l", "y", "z", "e", " ", "c", "o",
                                    "d", "e", ":", " ", "f", "u", "n", "c", "t", "i",
                                    "o", "n", "(", ")", " ", "{", "}">>} =>
                    call.result = NoTool
       /\ call.fn = "processWithMCP" =>
             /\ ~call.result.threw
             /\ applicable = <<>> <=> call.result.value = getAICompletion(call.content)

C27_Witness ==
    /\ call.fn = "detectToolInvocation"
    /\ includes(toLowerCase(call.content), <<"w", "e", "a", "t", "h", "e", "r">>)
    /\ ~ToolApplies(call.content, "weather")
    /\ call.result.tool = "calculator"

(* C28: for a message that contains a binary arithmetic expression a op b the
   expression handed to the calculator is that expression, wherever it stands
   in the message: it starts and ends with a digit and holds a op b, and the
   three quoted messages give '5 + 3', '10 * 20' and '42 / 6'. *)
C28_ExpressionIsTheArithmetic ==
    (call.fn = "detectToolInvocation" /\ call.result.tool = "calculator") =>
        LET expression == call.result.params.expression
        IN /\ ArithmeticTest(expression)
           /\ IsDigit(Head(expression))
           /\ call.content = <<"C", "a", "l", "c", "u", "l", "a", "t", "e", " ", "5",
                               " ", "+", " ", "3">> => expression = <<"5", " ", "+",
                                                                      " ", "3">>
           /\ call.content = <<"1", "0", " ", "*", " ", "2", "0", " ", "e", "q", "u",
                               "a", "l", "s", " ", "w", "h", "a", "t", "?">> => expression = <<
                                                                                               "1",
                                                                                               "0",
                                                                                               " ",
                                                                                               "*",
                                                                                               " ",
                                                                                               "2",
                                                                                               "0">>
           /\ call.content = <<"W", "h", "a", "t", " ", "i", "s", " ", "4", "2", " ",
                               "/", " ", "6", "?">> => expression = <<"4", "2", " ",
                                                                      "/", " ", "6">>

(* C29: the location handed to the weather tool is the phrase that follows the
   preposition word in, for or at: the word stands at the start of the text or
   after white space, never at the end of another word, and the three quoted
   queries give 'New York', 'Los Angeles' and 'Berlin'. *)
C29_LocationFollowsPrepositionWord ==
    (call.fn = "detectToolInvocation" /\ call.result.tool = "weather") =>
        LET content == call.content
            location == call.result.params.location
        IN /\ \E p \in 1..Len(content) :
                 /\ p = 1 \/ IsSpace(content[p - 1])
                 /\ LocationMatchAt(content, p).found
                 /\ location = trim(LocationMatchAt(content, p).group)
           /\ content = <<"w", "e", "a", "t", "h", "e", "r", " ", "i", "n", " ", "N",
                          "e", "w", " ", "Y", "o", "r", "k">> => location = <<"N",
                                                                              "e",
                                                                              "w",
                                                                              " ",
                                                                              "Y",
                                                                              "o",
                                                                              "r", "k">>
           /\ content = <<"t", "e", "m", "p", "e", "r", "a", "t", "u", "r", "e", " ",
                          "f", "o", "r", " ", "L", "o", "s", " ", "A", "n", "g", "e",
                          "l", "e", "s">> => location = <<"L", "o", "s", " ", "A",
                                                          "n", "g", "e", "l", "e", "s">>
           /\ content = <<"w", "h", "a", "t", " ", "i", "s", " ", "t", "h", "e", " ",
                          "w", "e", "a", "t", "h", "e", "r", " ", "a", "t", " ", "B",
                          "e", "r", "l", "i", "n">> => location = <<"B", "e", "r",
                                                                    "l", "i", "n">>

(* C30: trimContext leaves a history of at most 10 entries as it is and cuts a
   longer one to its last 10 entries in their order: of 'Message 0' to
   'Message 14' it keeps 'Message 5' to 'Message 14'. *)
C30_TrimKeepsLastTen ==
    call.fn = "trimContext" =>
        LET before == call.conversationHistory
            after == call.result
            n == Len(before)
        IN /\ n <= 10 => after = before
           /\ n > 10 => /\ Len(after) = 10
                        /\ \A k \in 1..10 : after[k] = before[n - 10 + k]
           /\ n = 15 => /\ after[1].content = <<"Message ", "5">>
                        /\ after[10].content = <<"Message ", "14">>

C30_Witness ==
    /\ call.fn = "trimContext"
    /\ Len(call.conversationHistory) = 15
    /\ Len(call.result) = 10

(* C26: in MCPBot a failure while a non-command message is handled (the
   detected tool is not registered) is reported to the user as the failure
   notice and never leaves message handling: the handler that caught it does
   not end with an error raised out of handleMessage, and the contexts of the
   other users are untouched. *)
C26_ToolFailureIsReportedNotRaised ==
    [][/\ \A u \in Users :
             ( /\ lastStep'.arrival = "conversation"
               /\ lastStep'.send # <<>>
               /\ lastStep'.send[1].to = u
               /\ \E h \in BagToSet(inflight') :
                     h.user = u /\ h.cont = "conversationCatch" /\ ~BagIn(h, inflight) )
             => /\ lastStep'.send[1].text = aiErrorNotice
                /\ \A v \in Users \ {u} :
                      /\ v \in DOMAIN contexts' <=> v \in DOMAIN contexts
                      /\ v \in DOMAIN contexts => contexts'[v] = contexts[v]
       /\ \A k \in 1..Len(lastStep'.rejected) :
             lastStep'.rejected[k].cont # "conversationCatch"]_vars

(* C31: in MCPBot, whenever no message of a user is being processed, that
   user's conversationHistory holds at most maxContextLength (10) entries. *)
C31_HistoryWithinMaxContextLength ==
    \A userId \in DOMAIN contexts :
        ~Processing(userId)
        => Len(contexts[userId].conversationHistory) <= maxContextLength

(* C32: no message is evaluated with the terminal state 'complete' as the
   current state of its author's session: a message that finds a live session
   never finds it at 'complete' and is never answered with the "didn't
   understand" notice of that state. *)
C32_TerminalStateNeverEvaluated ==
    [][\A u \in Users, c \in Texts :
          ( /\ lastStep'.arrival = "live"
            /\ LiveAt(u)
            /\ Receive(u, c, FALSE) )
          => /\ Last(conversations[u].context) # "complete"
             /\ lastStep'.send # <<[to |-> u, text |-> unknownNotice]>>]_vars

(* C33: the deletion a handler performs after the terminal prompt or after the
   recovery notice removes only the session object that handler was
   processing: when the store holds a newer session of the same user by then,
   that session stays stored, unchanged. *)
C33_DeletionRemovesOnlyOwnSession ==
    [][\A h \in BagToSet(inflight) :
          ( /\ h.cont \in {"deleteComplete", "deleteConfused"}
            /\ h.user \in DOMAIN conversations
            /\ conversations[h.user].ref # h.ref
            /\ SendDone(h, TRUE) )
          => /\ h.user \in DOMAIN conversations'
             /\ conversations'[h.user] = conversations[h.user]]_vars

(* C34: every message, not flagged as a bot's, from a user whose stored session
   is not expired is answered with exactly one outbound message to that user:
   the recovery notice when the current state does not resolve, else the
   "didn't understand" notice when no transition matches, else the prompt of
   the matched transition's target. *)
C34_OneReplyPerMessageToLiveSession ==
    [][\A u \in Users, c \in Texts :
          ( /\ lastStep'.arrival = "live"
            /\ Had(u) = "live"
            /\ Receive(u, c, FALSE) )
          => /\ Len(lastStep'.send) = 1
             /\ lastStep'.send[1].to = u
             /\ IF ~LiveAt(u)
                THEN lastStep'.send[1].text = confusedNotice
                ELSE IF findNextState(normalize(c), CurrentState(u).transitions) = <<>>
                THEN lastStep'.send[1].text = unknownNotice
                ELSE lastStep'.send[1].text \notin {confusedNotice, unknownNotice}]_vars

(* C35: in every registered flow the initial state and every transition target
   are keys of the states map; no stored session has a current state that
   does not resolve in its flow, and the recovery notice is never sent. *)
C35_OnboardingStatesResolve ==
    /\ \A i \in 1..Len(flows) :
          LET flow == FlowOf(flows[i])
          IN /\ flow.initialState \in DOMAIN flow.states
             /\ \A s \in DOMAIN flow.states :
                   \A k \in 1..Len(flow.states[s].transitions) :
                       flow.states[s].transitions[k][2] \in DOMAIN flow.states
    /\ \A u \in DOMAIN conversations :
          /\ flowsGet(flows, conversations[u].currentTopic) # <<>>
          /\ conversations[u].context # <<>>
             => Last(conversations[u].context) \in
                    DOMAIN flowsGet(flows, conversations[u].currentTopic)[1].states
    /\ lastStep.send # <<>> => lastStep.send[1].text # confusedNotice
    /\ \A h \in BagToSet(inflight) : h.cont # "deleteConfused"

C35_Witness ==
    /\ lastStep.arrival = "live"
    /\ lastStep.send # <<>>
    /\ BagCardinality(inflight) = 1
    /\ \E u \in DOMAIN conversations :
          /\ lastStep.send[1].to = u
          /\ conversations[u].context =
                 <<"greeting", "askPurpose", "clarifyPurpose", "askPurpose">>

(* C36: in the onboarding flow every state except 'complete' has a catch-all
   transition, and, the messages of each user being processed one at a time,
   every message to a stored session that is not expired appends exactly one
   state to visitedStates and is not answered with the "didn't understand"
   notice. *)
C36_EveryMessageAdvancesTheSession ==
    [][\A u \in Users, c \in Texts :
          ( /\ lastStep'.arrival = "live"
            /\ Had(u) = "live"
            /\ Receive(u, c, FALSE) )
          => /\ \A s \in DOMAIN createOnboardingFlow.states \ {"complete"} :
                   \E k \in 1..Len(createOnboardingFlow.states[s].transitions) :
                       createOnboardingFlow.states[s].transitions[k][1].src = ".*"
             /\ u \in DOMAIN conversations'
             /\ Len(conversations'[u].context) = Len(conversations[u].context) + 1
             /\ IsPrefix(conversations[u].context, conversations'[u].context)
             /\ lastStep'.send # <<[to |-> u, text |-> unknownNotice]>>]_vars

\* the states of a flow from which every message leads on, and every path of
\* transitions ends at 'complete' after at most k messages
RECURSIVE CompletesWithin(_, _)
CompletesWithin(flow, k) ==
    IF k = 0 THEN {"complete"}
    ELSE LET Closer(sooner) ==
                 sooner \cup
                 {s \in DOMAIN flow.states :
                     /\ \E j \in 1..Len(flow.states[s].transitions) :
                            flow.states[s].transitions[j][1].src = ".*"
                     /\ \A j \in 1..Len(flow.states[s].transitions) :
                            flow.states[s].transitions[j][2] \in sooner}
         IN Closer(CompletesWithin(flow, k - 1))

(* C37: in the onboarding flow every state outside {greeting, askPurpose,
   clarifyPurpose} leads to 'complete' within 3 messages whatever is typed,
   and the only way round inside those three states is askPurpose ->
   clarifyPurpose -> askPurpose; so, the messages of each user being processed
   one at a time, a stored session none of whose messages is being processed
   is not at 'complete' (it was deleted) and has at most 2 states behind the
   first one outside the three. *)
C37_SessionsEndWithinThreeMessages ==
    LET opening == {"greeting", "askPurpose", "clarifyPurpose"}
        states == createOnboardingFlow.states
        Targets(s) == {states[s].transitions[j][2] : j \in 1..Len(states[s].transitions)}
    IN /\ DOMAIN states \ opening \subseteq CompletesWithin(createOnboardingFlow, 3)
       /\ Targets("greeting") \cap opening = {"askPurpose"}
       /\ Targets("askPurpose") \cap opening = {"clarifyPurpose"}
       /\ Targets("clarifyPurpose") \cap opening = {"askPurpose"}
       /\ \A u \in DOMAIN conversations :
             (\A h \in BagToSet(inflight) : h.user # u)
             => LET context == conversations[u].context
                    left == {i \in 1..Len(context) : context[i] \notin opening}
                IN left # {} =>
                      /\ Last(context) # "complete"
                      /\ \A i \in left : Len(context) - i <= 2

(* C38: a message, not flagged as a bot's, whose text contains no trigger
   keyword and whose author's stored session is expired changes nothing: the
   store is the same afterwards (the expired session with its visitedStates,
   userData and lastActivity included), nothing is passed to sendMessage and
   no handler is left waiting. *)
C38_NoTriggerLeavesExpiredSession ==
    [][\A u \in Users, c \in Texts :
          ( /\ lastStep'.arrival = "expired"
            /\ u \in DOMAIN conversations
            /\ isSessionExpired(conversations[u], now)
            /\ \A i \in 1..Len(flows) :
                  \A k \in 1..Len(FlowOf(flows[i]).triggers) :
                      indexOf(normalize(c), FlowOf(flows[i]).triggers[k]) = 0
            /\ Receive(u, c, FALSE) )
          => /\ conversations' = conversations
             /\ lastStep'.send = <<>>
             /\ inflight' = inflight]_vars

C38_Witness ==
    /\ lastStep.arrival = "expired"
    /\ lastStep.send = <<>>
    /\ inflight = EmptyBag
    /\ Cardinality(DOMAIN conversations) = 1
    /\ \A u \in DOMAIN conversations :
          /\ isSessionExpired(conversations[u], now)
          /\ Len(conversations[u].context) >= 2
          /\ conversations[u].userData # <<>>

(* C39: while the cleanup timer keeps firing and time keeps passing, the
   session of a user who from some point on sends no message is eventually
   removed from the store, and stays removed. *)
C39_IdleSessionsEventuallyRemoved ==
    \A u \in Users :
        <>[][\A c \in Texts, b \in BOOLEAN : ~Receive(u, c, b)]_vars
        => <>[](u \notin DOMAIN conversations)

C39_Witness ==
    /\ now = MaxNow
    /\ lastStep.log = Users
    /\ conversations = EmptyMap
    /\ inflight # EmptyBag

====
